---- MODULE Spec2Model ----
(***************************************************************************)
(* PyGPSClient: the NMEA sentence reducer (nmea_handler.py, with the       *)
(* status record of app.py) and the scatterplot engine (scatter_frame.py). *)
(*                                                                         *)
(* Python values are dynamically typed; a value is a record                *)
(*   [k |-> "str" | "num", s |-> <text>, n |-> <number>]                   *)
(* so that "" (empty field), "0" (text) and 0 (number) stay distinct, as   *)
(* they are for Python's == and in.  Numbers are integers: a latitude, a   *)
(* speed or a time is whatever unit the producer chose, and the unit       *)
(* conversions are spelled out where the code converts.                    *)
(***************************************************************************)
EXTENDS Integers, Sequences, FiniteSets, TLC

VARIABLES
    \* ---- NMEAHandler (nmea_handler.py) ----
    nmea,          \* the Fix State: self.utc, self.lat, ... (field name -> value)
    gsv_data,      \* self.gsv_data: list of (gnssId, svid, elev, azim, snr)
    gsv_log,       \* self.gsv_log: insertion-ordered dict, as a list of [key, val]
    GNSS_status,   \* App._GNSS_status: the shared status record
    show_zero,     \* app.frm_settings.show_zero
    record_track,  \* app.frm_settings.record_track
    clock,         \* what time() returns, in ticks
    calls,         \* the collaborator calls made by the last handler, in order
    last,          \* the arguments of the last process_data call
    sent,          \* number of process_data calls so far
    \* ---- ScatterViewFrame (scatter_frame.py) ----
    gnss_status,   \* app.gnss_status as update_frame reads it: lat, lon, fix
    _points, _average, _stddev, _fixed, _bounds, _lastbounds, _range,
    _autorange, _centermode, _scale, _reflat, _reflon,
    winfo,         \* the canvas widget's size (winfo_width, winfo_height)
    canvas,        \* what is on the canvas: the static frame and the markers
    pc,            \* where the running handler is: "idle" or "autorange"
    ui,            \* number of user events so far
    middle,        \* update_frame's local: the centre handed to _do_autorange
    op,            \* the handler that ran last, and what it did
    \* ---- projection round trip (pure functions) ----
    proj           \* a bounding box, a canvas size and a point, with the results

nmeavars == <<nmea, gsv_data, gsv_log, GNSS_status, show_zero, record_track,
              clock, calls, last, sent>>
scattervars == <<gnss_status, _points, _average, _stddev, _fixed, _bounds,
                 _lastbounds, _range, _autorange, _centermode, _scale,
                 _reflat, _reflon, winfo, canvas, pc, ui, middle, op>>
vars == <<nmeavars, scattervars, proj>>

----------------------------------------------------------------------------
(* Python values *)

S(x) == [k |-> "str", s |-> x, n |-> 0]
N(x) == [k |-> "num", s |-> "", n |-> x]

EMPTY == S("")

Digit(d) ==
    CASE d = 0 -> "0" [] d = 1 -> "1" [] d = 2 -> "2" [] d = 3 -> "3"
      [] d = 4 -> "4" [] d = 5 -> "5" [] d = 6 -> "6" [] d = 7 -> "7"
      [] d = 8 -> "8" [] d = 9 -> "9"

RECURSIVE NatStr(_)
NatStr(i) == IF i < 10 THEN Digit(i) ELSE NatStr(i \div 10) \o Digit(i % 10)

\* str(v): text is itself, a number is its decimal text
PyStr(v) ==
    IF v.k = "str" THEN v.s
    ELSE IF v.n < 0 THEN "-" \o NatStr(-v.n) ELSE NatStr(v.n)

\* float(v): a number is itself; text parses when it is a decimal numeral,
\* otherwise float raises ValueError (~IsFloat)
MaxParse == 12

IsFloat(v) == v.k = "num" \/ \E i \in 0..MaxParse : NatStr(i) = v.s

Float(v) ==
    IF v.k = "num" THEN v.n ELSE CHOOSE i \in 0..MaxParse : NatStr(i) = v.s

----------------------------------------------------------------------------
(* pygpsclient.globals and pygpsclient.helpers, as nmea_handler.py uses them *)

\* globals.SAT_EXPIRY, the expiry window, in ticks of the clock: satellites
\* not reported for that long leave the visible list
SAT_EXPIRY == 2

\* knots to m/s; speeds are fixed-point, in thousandths
knots2ms(knots) == N((Float(knots) * 5144) \div 10000)

\* km/h to m/s
kmph2ms(kmph) == N((Float(kmph) * 2778) \div 10000)

\* raw quality code of a sentence type to the fix enumeration
fix2int(fix, msgtype) ==
    IF fix.k # "num" THEN N(0)
    ELSE IF msgtype = "GGA" THEN
        (IF fix.n \in {1, 2} THEN N(3) ELSE IF fix.n \in {4, 5} THEN N(4)
         ELSE N(0))
    ELSE IF msgtype = "GSA" THEN
        (IF fix.n = 2 THEN N(2) ELSE IF fix.n = 3 THEN N(3) ELSE N(0))
    ELSE N(0)

\* NMEAHandler.ts2utc: today's date, "T", the timestamp, "Z"
ts2utc(timestamp) == S("<today>T" \o PyStr(timestamp) \o "Z")

----------------------------------------------------------------------------
(* App (app.py): the shared status record *)

StatusKeys ==
    {"utc", "lat", "lon", "alt", "speed", "track", "fix", "siv", "sip",
     "pdop", "hdop", "vdop", "hacc", "vacc", "sep", "diffAge", "diffStation"}

InitGNSSStatus ==
    [key \in StatusKeys |-> IF key = "fix" THEN N(5) ELSE N(0)]

\* set_GNSS_status as a plain dict.update: unknown keys are added
set_GNSS_status_update(status, kwargs) ==
    [parm \in DOMAIN status \cup DOMAIN kwargs |->
        IF parm \in DOMAIN kwargs THEN kwargs[parm] ELSE status[parm]]

\* App.set_GNSS_status(**kwargs): kwargs is a function from names to values
set_GNSS_status(status, kwargs) ==
    [parm \in DOMAIN status |->
        IF parm \in DOMAIN kwargs THEN kwargs[parm] ELSE status[parm]]

----------------------------------------------------------------------------
(* NMEAHandler (nmea_handler.py) *)

Fields ==
    {"utc", "lat", "lon", "alt", "speed", "track", "sip", "fix", "pdop",
     "hdop", "vdop", "hacc", "vacc", "sep", "diffAge", "diffStation"}

\* NMEAHandler.__init__
InitNMEA == [f \in Fields |-> IF f = "utc" THEN EMPTY ELSE N(0)]

Call(fn, args) == [fn |-> fn, args |-> args]

StatusError == Call("set_status", [color |-> S("red")])

update_map(st) ==
    Call("update_map", [lat |-> st["lat"], lon |-> st["lon"], hacc |-> st["hacc"]])

\* A handler takes the Fix State and the sentence and gives the Fix State
\* it leaves and the calls it made: [nmea |-> ..., calls |-> ...].  A
\* ValueError leaves the assignments made before it and skips the rest of
\* the try block.

\* _process_RMC copying the course without the test for ""
_process_RMC_unguarded(st, data) ==
    LET s1 == [st EXCEPT !["utc"] = data.time, !["lat"] = data.lat,
                         !["lon"] = data.lon]
        s2 == IF data.spd # EMPTY
              THEN [s1 EXCEPT !["speed"] = knots2ms(data.spd)] ELSE s1
        s3 == [s2 EXCEPT !["track"] = data.cog]
    IN  IF data.spd # EMPTY /\ ~IsFloat(data.spd)
        THEN [nmea |-> s1, calls |-> <<StatusError>>]
        ELSE [nmea |-> s3,
              calls |-> << Call("update_banner",
                               [time |-> s3["utc"], lat |-> s3["lat"],
                                lon |-> s3["lon"], speed |-> s3["speed"],
                                track |-> s3["track"]]),
                           update_map(s3) >>]

_process_RMC(st, data) ==
    LET s1 == [st EXCEPT !["utc"] = data.time, !["lat"] = data.lat,
                         !["lon"] = data.lon]
        s2 == IF data.spd # EMPTY
              THEN [s1 EXCEPT !["speed"] = knots2ms(data.spd)] ELSE s1
        s3 == IF data.cog # EMPTY THEN [s2 EXCEPT !["track"] = data.cog] ELSE s2
    IN  IF data.spd # EMPTY /\ ~IsFloat(data.spd)
        THEN [nmea |-> s1, calls |-> <<StatusError>>]
        ELSE [nmea |-> s3,
              calls |-> << Call("update_banner",
                               [time |-> s3["utc"], lat |-> s3["lat"],
                                lon |-> s3["lon"], speed |-> s3["speed"],
                                track |-> s3["track"]]),
                           update_map(s3) >>]

\* _process_GGA recording the trackpoint without the test of lat and lon
_process_GGA_untested(st, data, rec) ==
    LET s1 == [st EXCEPT !["utc"] = data.time, !["sip"] = data.numSV,
                         !["lat"] = data.lat, !["lon"] = data.lon,
                         !["alt"] = data.alt, !["sep"] = data.sep,
                         !["fix"] = fix2int(data.quality, "GGA"),
                         !["diffAge"] = data.diffAge,
                         !["diffStation"] = data.diffStation]
        ele == IF s1["alt"] = EMPTY THEN N(0) ELSE s1["alt"]
        track == IF rec
                 THEN << Call("add_trackpoint",
                              [lat |-> s1["lat"], lon |-> s1["lon"], ele |-> ele,
                               time |-> ts2utc(data.time), sat |-> s1["sip"]]) >>
                 ELSE << >>
    IN  [nmea |-> s1,
         calls |-> << Call("update_banner",
                          [time |-> s1["utc"], lat |-> s1["lat"],
                           lon |-> s1["lon"], alt |-> s1["alt"],
                           sip |-> s1["sip"], fix |-> s1["fix"]]),
                      update_map(s1) >> \o track]

_process_GGA(st, data, rec) ==
    LET s1 == [st EXCEPT !["utc"] = data.time, !["sip"] = data.numSV,
                         !["lat"] = data.lat, !["lon"] = data.lon,
                         !["alt"] = data.alt, !["sep"] = data.sep,
                         !["fix"] = fix2int(data.quality, "GGA"),
                         !["diffAge"] = data.diffAge,
                         !["diffStation"] = data.diffStation]
        ele == IF s1["alt"] = EMPTY THEN N(0) ELSE s1["alt"]
        track == IF rec /\ s1["lat"] # EMPTY /\ s1["lon"] # EMPTY
                 THEN << Call("add_trackpoint",
                              [lat |-> s1["lat"], lon |-> s1["lon"], ele |-> ele,
                               time |-> ts2utc(data.time), sat |-> s1["sip"]]) >>
                 ELSE << >>
    IN  [nmea |-> s1,
         calls |-> << Call("update_banner",
                          [time |-> s1["utc"], lat |-> s1["lat"],
                           lon |-> s1["lon"], alt |-> s1["alt"],
                           sip |-> s1["sip"], fix |-> s1["fix"]]),
                      update_map(s1) >> \o track]

\* _process_GLL with the fix taken from the sentence's position mode as well
_process_GLL_posMode(st, data) ==
    LET s1 == [st EXCEPT !["utc"] = data.time, !["lat"] = data.lat,
                         !["lon"] = data.lon, !["fix"] = fix2int(EMPTY, "GLL")]
    IN  [nmea |-> s1,
         calls |-> << Call("update_banner",
                          [time |-> s1["utc"], lat |-> s1["lat"],
                           lon |-> s1["lon"]]),
                      update_map(s1) >>]

_process_GLL(st, data) ==
    LET s1 == [st EXCEPT !["utc"] = data.time, !["lat"] = data.lat,
                         !["lon"] = data.lon]
    IN  [nmea |-> s1,
         calls |-> << Call("update_banner",
                          [time |-> s1["utc"], lat |-> s1["lat"],
                           lon |-> s1["lon"]]),
                      update_map(s1) >>]

_process_GSA(st, data) ==
    LET s1 == [st EXCEPT !["pdop"] = data.PDOP, !["hdop"] = data.HDOP,
                         !["vdop"] = data.VDOP,
                         !["fix"] = fix2int(data.navMode, "GSA")]
    IN  [nmea |-> s1,
         calls |-> << update_map(s1),
                      Call("update_banner",
                          [dop |-> s1["pdop"], hdop |-> s1["hdop"],
                           vdop |-> s1["vdop"], fix |-> s1["fix"]]) >>]

\* _process_VTG with the speed zeroed when the conversion fails
_process_VTG_reset(st, data) ==
    LET s1 == [st EXCEPT !["track"] = data.cogt]
        s2 == [s1 EXCEPT !["speed"] = kmph2ms(data.sogk)]
    IN  IF ~IsFloat(data.sogk)
        THEN [nmea |-> [s1 EXCEPT !["speed"] = N(0)], calls |-> <<StatusError>>]
        ELSE [nmea |-> s2,
              calls |-> << Call("update_banner",
                               [speed |-> s2["speed"], track |-> s2["track"]]) >>]

\* data.sogk is tested against None, not "": an empty sogk reaches kmph2ms
_process_VTG(st, data) ==
    LET s1 == [st EXCEPT !["track"] = data.cogt]
        s2 == [s1 EXCEPT !["speed"] = kmph2ms(data.sogk)]
    IN  IF ~IsFloat(data.sogk)
        THEN [nmea |-> s1, calls |-> <<StatusError>>]
        ELSE [nmea |-> s2,
              calls |-> << Call("update_banner",
                               [speed |-> s2["speed"], track |-> s2["track"]]) >>]

_process_UBX00(st, data) ==
    LET s1 == [st EXCEPT !["hacc"] = data.hAcc, !["vacc"] = data.vAcc]
    IN  [nmea |-> s1,
         calls |-> << Call("update_banner",
                          [hacc |-> s1["hacc"], vacc |-> s1["vacc"]]) >>]

\* d[key] = val as a list append: a key set again is held twice
DictSet_append(d, key, val) == Append(d, [key |-> key, val |-> val])

\* a dict keeps insertion order: a list of [key, val]; d[key] = val replaces
\* the value of a key in place or appends a new key
DictSet(d, key, val) ==
    IF \E i \in DOMAIN d : d[i].key = key
    THEN [i \in DOMAIN d |-> IF d[i].key = key THEN [key |-> key, val |-> val]
                              ELSE d[i]]
    ELSE Append(d, [key |-> key, val |-> val])

DictKeys(d) == {d[i].key : i \in DOMAIN d}

DictGet(d, key) == d[CHOOSE i \in DOMAIN d : d[i].key = key].val

\* every talker taken for GPS
gnssOf_gps(talker) == 0

\* the constellation of a talker id
gnssOf(talker) ==
    IF talker = "GA" THEN 2
    ELSE IF talker = "GB" THEN 3
    ELSE IF talker = "GL" THEN 6
    ELSE 0

SatKey(gnss, svid) == NatStr(gnss) \o "-" \o PyStr(svid)

\* one "if data.svid_0i != ''" block: slot i of the sentence into gsv_dict
gsv_slot(gsv_dict, data, i, gnss, now) ==
    LET sl == data.slots[i]
    IN  IF sl.svid # EMPTY
        THEN DictSet(gsv_dict, SatKey(gnss, sl.svid),
                     [gnssId |-> gnss, svid |-> sl.svid, elev |-> sl.elv,
                      azim |-> sl.az, snr |-> S(PyStr(sl.cno)),
                      lastupdate |-> now])
        ELSE gsv_dict

\* the try block giving up what it had read when a slot is absent
gsv_read_discard(data, gnss, now) ==
    LET d1 == gsv_slot(<< >>, data, 1, gnss, now)
        d2 == gsv_slot(d1, data, 2, gnss, now)
        d3 == gsv_slot(d2, data, 3, gnss, now)
        d4 == gsv_slot(d3, data, 4, gnss, now)
    IN  IF Len(data.slots) >= 4 THEN d4 ELSE << >>

\* the try block: data.slots holds the slots whose attributes exist; reading
\* the first one that does not raises AttributeError, which ends the block
gsv_read(data, gnss, now) ==
    LET n  == Len(data.slots)
        d1 == IF n >= 1 THEN gsv_slot(<< >>, data, 1, gnss, now) ELSE << >>
        d2 == IF n >= 2 THEN gsv_slot(d1, data, 2, gnss, now) ELSE d1
        d3 == IF n >= 3 THEN gsv_slot(d2, data, 3, gnss, now) ELSE d2
        d4 == IF n >= 4 THEN gsv_slot(d3, data, 4, gnss, now) ELSE d3
    IN  d4

\* the log replaced by the satellites of the sentence
gsv_merge_replace(log, gsv_dict, i) == gsv_dict

RECURSIVE gsv_merge(_, _, _)
\* for key in gsv_dict: self.gsv_log[key] = gsv_dict[key]
gsv_merge(log, gsv_dict, i) ==
    IF i > Len(gsv_dict) THEN log
    ELSE gsv_merge(DictSet(log, gsv_dict[i].key, gsv_dict[i].val), gsv_dict, i + 1)

ZeroSNR == {S(""), S("0"), N(0)}

\* the expiry test with <= for <
gsv_visible_late(val, showzero, now) ==
    /\ ~(val.snr \in ZeroSNR /\ ~showzero)
    /\ now - val.lastupdate <= SAT_EXPIRY

\* no expiry test
gsv_visible_forever(val, showzero, now) == ~(val.snr \in ZeroSNR /\ ~showzero)

\* zero signal omitted whatever the "show zero" setting
gsv_visible_nozero(val, showzero, now) ==
    /\ val.snr \notin ZeroSNR
    /\ now - val.lastupdate < SAT_EXPIRY

\* the second loop: is the log entry appended to gsv_data
gsv_visible(val, showzero, now) ==
    /\ ~(val.snr \in ZeroSNR /\ ~showzero)
    /\ now - val.lastupdate < SAT_EXPIRY

gsv_entry(val) ==
    [gnssId |-> val.gnssId, svid |-> val.svid, elev |-> val.elev,
     azim |-> val.azim, snr |-> val.snr]

gsv_rebuild(log, showzero, now) ==
    LET keep == SelectSeq(log, LAMBDA e : gsv_visible(e.val, showzero, now))
    IN  [i \in DOMAIN keep |-> gsv_entry(keep[i].val)]

\* gives [gsv_log |-> ..., gsv_data |-> ..., calls |-> ...]
\* _process_GSV reporting the size of the log as the satellites in view
_process_GSV_siv_log(log, data, showzero, now) ==
    LET gnss == gnssOf(data.talker)
        newlog == gsv_merge(log, gsv_read(data, gnss, now), 1)
        newdata == gsv_rebuild(newlog, showzero, now)
    IN  [gsv_log |-> newlog, gsv_data |-> newdata,
         calls |-> << Call("update_sats", [data |-> newdata]),
                      Call("update_banner", [siv |-> N(Len(newlog))]),
                      Call("update_graph",
                           [data |-> newdata, siv |-> N(Len(newlog))]) >>]

_process_GSV(log, data, showzero, now) ==
    LET gnss == gnssOf(data.talker)
        newlog == gsv_merge(log, gsv_read(data, gnss, now), 1)
        newdata == gsv_rebuild(newlog, showzero, now)
    IN  [gsv_log |-> newlog, gsv_data |-> newdata,
         calls |-> << Call("update_sats", [data |-> newdata]),
                      Call("update_banner", [siv |-> N(Len(newdata))]),
                      Call("update_graph",
                           [data |-> newdata, siv |-> N(Len(newdata))]) >>]

\* the keyword arguments process_data hands to set_GNSS_status
StatusArgs(st) ==
    [parm \in {"lat", "lon", "alt", "fix", "sip", "pdop", "hdop", "sep",
               "diffAge", "diffStation"} |-> st[parm]]

NONE == "None"
RAW == "bytes"

\* the sentence handlers of process_data that write the Fix State
fix_dispatch(st, data, rec) ==
    IF data.msgID = "RMC" THEN _process_RMC(st, data)
    ELSE IF data.msgID = "GGA" THEN _process_GGA(st, data, rec)
    ELSE IF data.msgID = "GLL" THEN _process_GLL(st, data)
    ELSE IF data.msgID = "GSA" THEN _process_GSA(st, data)
    ELSE IF data.msgID = "VTG" THEN _process_VTG(st, data)
    ELSE IF data.msgID = "UBX" /\ data.msgId = "00" THEN _process_UBX00(st, data)
    ELSE [nmea |-> st, calls |-> << >>]

\* no test of raw_data
raw_data_unchecked(raw_data) == FALSE

\* "if raw_data is None: return"
raw_data_is_None(raw_data) == raw_data = NONE

\* process_data writing the status record before it runs the handler
process_data_publish_first(raw_data, parsed_data) ==
    /\ last' = [raw |-> raw_data, msg |-> parsed_data]
    /\ IF raw_data_is_None(raw_data)
       THEN /\ calls' = << >>
            /\ UNCHANGED <<nmea, gsv_data, gsv_log, GNSS_status>>
       ELSE LET h == fix_dispatch(nmea, parsed_data, record_track)
                g == IF parsed_data.msgID = "GSV"
                     THEN _process_GSV(gsv_log, parsed_data, show_zero, clock)
                     ELSE [gsv_log |-> gsv_log, gsv_data |-> gsv_data,
                           calls |-> << >>]
            IN  /\ nmea' = h.nmea
                /\ gsv_log' = g.gsv_log
                /\ gsv_data' = g.gsv_data
                /\ GNSS_status' = set_GNSS_status(GNSS_status, StatusArgs(nmea))
                /\ calls' = << Call("set_GNSS_status", StatusArgs(nmea)) >>
                            \o h.calls \o g.calls
    /\ UNCHANGED <<show_zero, record_track, clock>>

\* NMEAHandler.process_data(raw_data, parsed_data)
process_data(raw_data, parsed_data) ==
    /\ last' = [raw |-> raw_data, msg |-> parsed_data]
    /\ IF raw_data_is_None(raw_data)
       THEN /\ calls' = << >>
            /\ UNCHANGED <<nmea, gsv_data, gsv_log, GNSS_status>>
       ELSE LET h == fix_dispatch(nmea, parsed_data, record_track)
                g == IF parsed_data.msgID = "GSV"
                     THEN _process_GSV(gsv_log, parsed_data, show_zero, clock)
                     ELSE [gsv_log |-> gsv_log, gsv_data |-> gsv_data,
                           calls |-> << >>]
            IN  /\ nmea' = h.nmea
                /\ gsv_log' = g.gsv_log
                /\ gsv_data' = g.gsv_data
                /\ GNSS_status' = set_GNSS_status(GNSS_status, StatusArgs(h.nmea))
                /\ calls' = h.calls \o g.calls
                            \o << Call("set_GNSS_status", StatusArgs(h.nmea)) >>
    /\ UNCHANGED <<show_zero, record_track, clock>>

----------------------------------------------------------------------------
(* Floating point numbers of scatter_frame.py, as exact rationals          *)
(* [n |-> numerator, d |-> denominator > 0] in lowest terms                *)

RECURSIVE Gcd(_, _)
Gcd(a, b) == IF b = 0 THEN a ELSE Gcd(b, a % b)

Abs(a) == IF a < 0 THEN -a ELSE a

Rat(n, d) ==
    LET g == Gcd(Abs(n), Abs(d))
        sg == IF d < 0 THEN -1 ELSE 1
    IN  [n |-> sg * (n \div g), d |-> sg * (d \div g)]

RInt(i) == [n |-> i, d |-> 1]
RAdd(a, b) == Rat(a.n * b.d + b.n * a.d, a.d * b.d)
RSub(a, b) == Rat(a.n * b.d - b.n * a.d, a.d * b.d)
RMul(a, b) == Rat(a.n * b.n, a.d * b.d)
RDiv(a, b) == Rat(a.n * b.d, a.d * b.n)
RLe(a, b) == a.n * b.d <= b.n * a.d
RLt(a, b) == a.n * b.d < b.n * a.d

\* None and a value that is not None
None == << >>
Some(x) == << x >>
Val(o) == o[1]

Point(lat, lon) == [lat |-> lat, lon |-> lon]
Area(lat1, lon1, lat2, lon2) ==
    [lat1 |-> lat1, lon1 |-> lon1, lat2 |-> lat2, lon2 |-> lon2]

\* pygpsclient.helpers.in_bounds: the point is within the box, edges included
in_bounds(bounds, point) ==
    /\ RLe(bounds.lat1, point.lat) /\ RLe(point.lat, bounds.lat2)
    /\ RLe(bounds.lon1, point.lon) /\ RLe(point.lon, bounds.lon2)

\* pygpsclient.helpers.get_point_at_vector: the point dist metres from
\* start along bearing 0, 90, 180 or 270; a coordinate unit is one metre on
\* the ground, north for lat and east for lon
get_point_at_vector(start, dist, bearing) ==
    IF bearing = 0 THEN Point(RAdd(start.lat, dist), start.lon)
    ELSE IF bearing = 90 THEN Point(start.lat, RAdd(start.lon, dist))
    ELSE IF bearing = 180 THEN Point(RSub(start.lat, dist), start.lon)
    ELSE Point(start.lat, RSub(start.lon, dist))

----------------------------------------------------------------------------
(* ScatterViewFrame (scatter_frame.py) *)

\* capacity of the point history; 100000 in the source, scaled down
MAXPOINTS == 2

CTRAVG == "Average"
CTRFIX == "Fixed"
PNTCOL == "orange"
FIXCOL == "green2"

\* the radii smallest first
_scale_factors_ascending ==
    << Rat(1, 100), Rat(1, 50), Rat(1, 20), Rat(1, 10), Rat(1, 5), Rat(1, 2),
       RInt(1), RInt(2), RInt(5), RInt(10), RInt(20), RInt(50), RInt(100),
       RInt(200), RInt(500), RInt(1000), RInt(2000), RInt(5000) >>

\* plot radius in metres, by scale index (Python index i is _scale_factors[i + 1])
_scale_factors ==
    << RInt(5000), RInt(2000), RInt(1000), RInt(500), RInt(200), RInt(100),
       RInt(50), RInt(20), RInt(10), RInt(5), RInt(2), RInt(1), Rat(1, 2),
       Rat(1, 5), Rat(1, 10), Rat(1, 20), Rat(1, 50), Rat(1, 100) >>

ScaleFactor(i) == _scale_factors[i + 1]

MaxScale == Len(_scale_factors) - 1

\* ScatterViewFrame._ll2xy: lat/lon to canvas x/y, for a box and a canvas size
_ll2xy(bounds, size, position) ==
    LET cw == RInt(size[1])
        ch == RInt(size[2])
        lw == RSub(bounds.lon2, bounds.lon1)
        lh == RSub(bounds.lat2, bounds.lat1)
        lwp == RDiv(lw, cw)
        lhp == RDiv(lh, ch)
    IN  [x |-> RDiv(RSub(position.lon, bounds.lon1), lwp),
         y |-> RSub(ch, RDiv(RSub(position.lat, bounds.lat1), lhp))]

\* _xy2ll with y measured from the bottom edge
_xy2ll_noflip(bounds, size, xy) ==
    LET cw == RInt(size[1])
        ch == RInt(size[2])
        lw == RSub(bounds.lon2, bounds.lon1)
        lh == RSub(bounds.lat2, bounds.lat1)
        cwp == RDiv(cw, lw)
        chp == RDiv(ch, lh)
    IN  Point(RAdd(bounds.lat1, RDiv(xy.y, chp)),
              RAdd(bounds.lon1, RDiv(xy.x, cwp)))

\* ScatterViewFrame._xy2ll: canvas x/y to lat/lon
_xy2ll(bounds, size, xy) ==
    LET cw == RInt(size[1])
        ch == RInt(size[2])
        lw == RSub(bounds.lon2, bounds.lon1)
        lh == RSub(bounds.lat2, bounds.lat1)
        cwp == RDiv(cw, lw)
        chp == RDiv(ch, lh)
    IN  Point(RAdd(bounds.lat1, RDiv(RSub(ch, xy.y), chp)),
              RAdd(bounds.lon1, RDiv(xy.x, cwp)))

RECURSIVE SumLat(_, _)
SumLat(pts, i) == IF i > Len(pts) THEN RInt(0) ELSE RAdd(pts[i].lat, SumLat(pts, i + 1))

RECURSIVE SumLon(_, _)
SumLon(pts, i) == IF i > Len(pts) THEN RInt(0) ELSE RAdd(pts[i].lon, SumLon(pts, i + 1))

RECURSIVE SumSqLat(_, _, _)
SumSqLat(pts, mu, i) ==
    IF i > Len(pts) THEN RInt(0)
    ELSE RAdd(RMul(RSub(pts[i].lat, mu), RSub(pts[i].lat, mu)), SumSqLat(pts, mu, i + 1))

RECURSIVE SumSqLon(_, _, _)
SumSqLon(pts, mu, i) ==
    IF i > Len(pts) THEN RInt(0)
    ELSE RAdd(RMul(RSub(pts[i].lon, mu), RSub(pts[i].lon, mu)), SumSqLon(pts, mu, i + 1))

\* the mean of the latitudes taken for both axes
Average_lat(pts) ==
    LET num == RInt(Len(pts))
    IN  Point(RDiv(SumLat(pts, 1), num), RDiv(SumLat(pts, 1), num))

\* ScatterViewFrame._set_average: the mean of the retained points
Average(pts) ==
    LET num == RInt(Len(pts))
    IN  Point(RDiv(SumLat(pts, 1), num), RDiv(SumLon(pts, 1), num))

\* pstdev per axis; kept as its square (the population variance), the square
\* root having no exact value
StdDev(pts) ==
    LET num == RInt(Len(pts))
        mu == Average(pts)
    IN  Point(RDiv(SumSqLat(pts, mu.lat, 1), num), RDiv(SumSqLon(pts, mu.lon, 1), num))

\* statistics.pstdev imported
HASSTATS == TRUE

\* ScatterViewFrame.get_range_label
get_range_label(range) ==
    IF RLe(RInt(1000), range) THEN [rng |-> RDiv(range, RInt(1000)), unt |-> "km"]
    ELSE IF RLe(RInt(1), range) THEN [rng |-> range, unt |-> "m"]
    ELSE [rng |-> RMul(range, RInt(100)), unt |-> "cm"]

\* the decimal places with every threshold ten times higher
LabelDp_shifted(rng) ==
    IF RLe(RInt(1000), rng) THEN 0
    ELSE IF RLe(RInt(100), rng) THEN 1
    ELSE IF RLe(RInt(10), rng) THEN 2
    ELSE 3

\* the decimal places _init_frame prints the ring labels with
LabelDp(rng) ==
    IF RLe(RInt(100), rng) THEN 0
    ELSE IF RLe(RInt(10), rng) THEN 1
    ELSE IF RLe(RInt(1), rng) THEN 2
    ELSE 3

\* the content of a StringVar: text as typed, or the text str() gives for a
\* float, which float() reads back as that float
Txt(s) == [k |-> "text", s |-> s, r |-> RInt(0)]
FloatTxt(r) == [k |-> "float", s |-> "", r |-> r]

TxtIsFloat(t) == t.k = "float" \/ \E i \in 0..MaxParse : NatStr(i) = t.s

TxtFloat(t) ==
    IF t.k = "float" THEN t.r
    ELSE RInt(CHOOSE i \in 0..MaxParse : NatStr(i) = t.s)

\* round(x, ndigits): the nearest multiple of 10^-ndigits; a number that
\* is such a multiple already is left as it is
RECURSIVE Pow10(_)
Pow10(e) == IF e = 0 THEN 1 ELSE 10 * Pow10(e - 1)

Floor(r) == r.n \div r.d

Round(r, ndigits) ==
    IF Pow10(ndigits) % r.d = 0 THEN r
    ELSE Rat(Floor(RAdd(RMul(r, RInt(Pow10(ndigits))), Rat(1, 2))), Pow10(ndigits))

\* The drawing state the helper methods work on:
\*   [bounds, lastbounds, range, canvas, log]
\* canvas is [frame, markers, avg]: frame is None before the first
\* _init_frame, else the static frame drawn last (rings FALSE: the axes
\* only); markers is the set of circles drawn since the last delete("all")
\* (a set: a circle drawn twice at one place is one circle); avg is the
\* text tagged AVG.  log lists the drawing methods the handler ran.

Marker(bounds, size, position, color, sz) ==
    [pos |-> position, xy |-> _ll2xy(bounds, size, position),
     color |-> color, size |-> sz]

\* ScatterViewFrame._init_frame
_init_frame(f) ==
    LET lbl == get_range_label(f.range)
        frame == IF f.bounds = None THEN [rings |-> FALSE, rng |-> RInt(0),
                                          unt |-> "", dp |-> 0]
                 ELSE [rings |-> TRUE, rng |-> lbl.rng, unt |-> lbl.unt,
                       dp |-> LabelDp(lbl.rng)]
    IN  [f EXCEPT !.canvas = [frame |-> Some(frame), markers |-> {}, avg |-> None],
                  !.log = Append(@, "_init_frame")]

\* _draw_point without the test of the box
_draw_point_unclipped(markers, bounds, size, position, color, sz) ==
    markers \cup {Marker(Val(bounds), size, position, color, sz)}

\* ScatterViewFrame._draw_point: the markers after drawing position
_draw_point(markers, bounds, size, position, color, sz) ==
    IF ~in_bounds(Val(bounds), position) THEN markers
    ELSE markers \cup {Marker(Val(bounds), size, position, color, sz)}

\* ScatterViewFrame._redraw (with _draw_average)
_redraw(f, pts, fixed, average, stddev, size) ==
    IF pts = << >> THEN f
    ELSE LET m1 == f.canvas.markers \cup
                   UNION {_draw_point({}, f.bounds, size, pts[i], PNTCOL, 2) :
                              i \in DOMAIN pts}
             m2 == IF fixed # None
                   THEN _draw_point(m1, f.bounds, size, Val(fixed), FIXCOL, 3)
                   ELSE m1
             av == IF average = None THEN f.canvas.avg
                   ELSE Some([avg |-> Val(average), std |-> stddev])
         IN  [f EXCEPT !.canvas.markers = m2, !.canvas.avg = av,
                       !.log = Append(@, "_redraw")]

\* ScatterViewFrame._on_resize, also run by _on_rescale on every write of _scale
_on_resize_(f, pts, fixed, average, stddev, size) ==
    _redraw(_init_frame(f), pts, fixed, average, stddev, size)

\* _set_bounds redrawing the static frame on every call
_set_bounds_always(f, center, scale, size) ==
    LET disth == ScaleFactor(scale)
        distw == RDiv(RMul(ScaleFactor(scale), RInt(size[1])), RInt(size[2]))
        t == get_point_at_vector(center, disth, 0)
        r == get_point_at_vector(center, distw, 90)
        b == get_point_at_vector(center, disth, 180)
        l == get_point_at_vector(center, distw, 270)
        f1 == [f EXCEPT !.bounds = Some(Area(b.lat, l.lon, t.lat, r.lon)),
                        !.range = disth]
    IN  [_init_frame(f1) EXCEPT !.lastbounds = f1.bounds]

\* ScatterViewFrame._set_bounds
_set_bounds(f, center, scale, size) ==
    LET disth == ScaleFactor(scale)
        distw == RDiv(RMul(ScaleFactor(scale), RInt(size[1])), RInt(size[2]))
        t == get_point_at_vector(center, disth, 0)
        r == get_point_at_vector(center, distw, 90)
        b == get_point_at_vector(center, disth, 180)
        l == get_point_at_vector(center, distw, 270)
        f1 == [f EXCEPT !.bounds = Some(Area(b.lat, l.lon, t.lat, r.lon)),
                        !.range = disth]
    IN  IF f1.bounds # f1.lastbounds
        THEN [_init_frame(f1) EXCEPT !.lastbounds = f1.bounds]
        ELSE f1

Drawing == [bounds |-> _bounds, lastbounds |-> _lastbounds, range |-> _range,
            canvas |-> canvas, log |-> << >>]

SetDrawing(f, name) ==
    /\ _bounds' = f.bounds
    /\ _lastbounds' = f.lastbounds
    /\ _range' = f.range
    /\ canvas' = f.canvas
    /\ op' = [name |-> name, log |-> f.log]

DrawingCont == [Drawing EXCEPT !.log = op.log]

NoOp(name) ==
    /\ op' = [name |-> name, log |-> << >>]
    /\ UNCHANGED <<_bounds, _lastbounds, _range, canvas>>

\* Point(float(lat), float(lon)) of a status whose lat and lon parse
Position(status) == Point(RInt(Float(status.lat)), RInt(Float(status.lon)))

\* the early returns without the test of the last point
Ignored_repeats(status, points) ==
    \/ ~IsFloat(status.lat)
    \/ ~IsFloat(status.lon)
    \/ status.fix = "NO FIX"

\* the early returns without the test of the fix
Ignored_nofix(status, points) ==
    \/ ~IsFloat(status.lat)
    \/ ~IsFloat(status.lon)
    \/ points # << >> /\ Position(status) = points[Len(points)]

\* the three early returns of update_frame: a lat or lon that float() does
\* not take, no fix, and the last point again
Ignored(status, points) ==
    \/ ~IsFloat(status.lat)
    \/ ~IsFloat(status.lon)
    \/ status.fix = "NO FIX"
    \/ points # << >> /\ Position(status) = points[Len(points)]

\* append without pop
Appended_unbounded(points, pos) == Append(points, pos)

\* self._points.append(pos), and pop(0) when that makes more than MAXPOINTS
Appended(points, pos) ==
    LET pts1 == Append(points, pos)
    IN  IF Len(pts1) > MAXPOINTS THEN Tail(pts1) ELSE pts1

\* update_frame leaving the centre mode when the reference does not parse
update_frame_mode_kept(status) ==
    /\ pc = "idle"
    /\ gnss_status' = status
    /\ UNCHANGED <<_autorange, _scale, _reflat, _reflon, winfo, ui>>
    /\ IF Ignored(status, _points)
       THEN /\ NoOp("update_frame")
            /\ UNCHANGED <<_points, _average, _stddev, _fixed, _centermode,
                           pc, middle>>
       ELSE LET pos == Position(status)
                pts == Appended(_points, pos)
                avg == Average(pts)
                std == IF HASSTATS THEN Some(StdDev(pts)) ELSE _stddev
                ok == TxtIsFloat(_reflat) /\ TxtIsFloat(_reflon)
                fixed == IF ok THEN Some(Point(TxtFloat(_reflat), TxtFloat(_reflon)))
                         ELSE None
                mid == IF ok /\ _centermode = CTRFIX THEN Val(fixed) ELSE avg
                f1 == _set_bounds(Drawing, mid, _scale, winfo)
            IN  /\ _points' = pts
                /\ _average' = Some(avg)
                /\ _stddev' = std
                /\ _fixed' = fixed
                /\ _centermode' = _centermode
                /\ IF _autorange # 0
                   THEN /\ pc' = "autorange"
                        /\ middle' = Some(mid)
                        /\ SetDrawing(f1, "update_frame")
                   ELSE /\ pc' = "idle"
                        /\ middle' = None
                        /\ SetDrawing(_redraw(f1, pts, fixed, Some(avg), std, winfo),
                                      "update_frame")

\* ScatterViewFrame.update_frame, up to the call of _do_autorange; without
\* autorange, all of it.  status is app.gnss_status as the call finds it.
update_frame(status) ==
    /\ pc = "idle"
    /\ gnss_status' = status
    /\ UNCHANGED <<_autorange, _scale, _reflat, _reflon, winfo, ui>>
    /\ IF Ignored(status, _points)
       THEN /\ NoOp("update_frame")
            /\ UNCHANGED <<_points, _average, _stddev, _fixed, _centermode,
                           pc, middle>>
       ELSE LET pos == Position(status)
                pts == Appended(_points, pos)
                avg == Average(pts)
                std == IF HASSTATS THEN Some(StdDev(pts)) ELSE _stddev
                ok == TxtIsFloat(_reflat) /\ TxtIsFloat(_reflon)
                fixed == IF ok THEN Some(Point(TxtFloat(_reflat), TxtFloat(_reflon)))
                         ELSE None
                mid == IF ok /\ _centermode = CTRFIX THEN Val(fixed) ELSE avg
                f1 == _set_bounds(Drawing, mid, _scale, winfo)
            IN  /\ _points' = pts
                /\ _average' = Some(avg)
                /\ _stddev' = std
                /\ _fixed' = fixed
                /\ _centermode' = IF ok THEN _centermode ELSE CTRAVG
                /\ IF _autorange # 0
                   THEN /\ pc' = "autorange"
                        /\ middle' = Some(mid)
                        /\ SetDrawing(f1, "update_frame")
                   ELSE /\ pc' = "idle"
                        /\ middle' = None
                        /\ SetDrawing(_redraw(f1, pts, fixed, Some(avg), std, winfo),
                                      "update_frame")

\* the for loop looking at the oldest point only
AnyOut_oldest(bounds, pts) == pts # << >> /\ ~in_bounds(Val(bounds), pts[1])

\* is some retained point outside the box: the for loop of _do_autorange
AnyOut(bounds, pts) == \E i \in DOMAIN pts : ~in_bounds(Val(bounds), pts[i])

\* _do_autorange stepping the scale index up, to the next smaller radius
_do_autorange_zoom_in ==
    /\ pc = "autorange"
    /\ UNCHANGED <<gnss_status, ui, _points, _average, _stddev, _fixed, _centermode,
                   _autorange, _reflat, _reflon, winfo>>
    /\ IF _scale < MaxScale /\ AnyOut(_bounds, _points)
       THEN LET f1 == _on_resize_(DrawingCont, _points, _fixed, _average, _stddev,
                                  winfo)
                f2 == _set_bounds(f1, Val(middle), _scale + 1, winfo)
            IN  /\ _scale' = _scale + 1
                /\ SetDrawing(f2, "update_frame")
                /\ UNCHANGED <<pc, middle>>
       ELSE /\ SetDrawing(_redraw(DrawingCont, _points, _fixed, _average, _stddev,
                                  winfo), "update_frame")
            /\ pc' = "idle"
            /\ middle' = None
            /\ UNCHANGED _scale

\* ScatterViewFrame._do_autorange: one test of the while loop, with the
\* iteration it lets in or, when it ends the loop, the _redraw that ends
\* update_frame.  Every write of _scale runs _on_rescale before _set_bounds.
_do_autorange ==
    /\ pc = "autorange"
    /\ UNCHANGED <<gnss_status, ui, _points, _average, _stddev, _fixed, _centermode,
                   _autorange, _reflat, _reflon, winfo>>
    /\ IF _scale > 0 /\ AnyOut(_bounds, _points)
       THEN LET f1 == _on_resize_(DrawingCont, _points, _fixed, _average, _stddev,
                                  winfo)
                f2 == _set_bounds(f1, Val(middle), _scale - 1, winfo)
            IN  /\ _scale' = _scale - 1
                /\ SetDrawing(f2, "update_frame")
                /\ UNCHANGED <<pc, middle>>
       ELSE /\ SetDrawing(_redraw(DrawingCont, _points, _fixed, _average, _stddev,
                                  winfo), "update_frame")
            /\ pc' = "idle"
            /\ middle' = None
            /\ UNCHANGED _scale

\* _on_zoom without the tests of the ends of the scale
_on_zoom_unbounded(delta) ==
    /\ pc = "idle"
    /\ UNCHANGED <<gnss_status, _points, _average, _stddev, _fixed, _centermode,
                   _autorange, _reflat, _reflon, winfo, pc, middle>>
    /\ LET sc == _scale
           nsc == IF delta > 0 THEN sc + 1
                  ELSE IF delta < 0 THEN sc - 1
                  ELSE sc
       IN  /\ _scale' = nsc
           /\ SetDrawing(_on_resize_(Drawing, _points, _fixed, _average,
                                     _stddev, winfo), "_on_zoom")

\* ScatterViewFrame._on_zoom: a mouse wheel event with this delta
_on_zoom(delta) ==
    /\ pc = "idle"
    /\ UNCHANGED <<gnss_status, _points, _average, _stddev, _fixed, _centermode,
                   _autorange, _reflat, _reflon, winfo, pc, middle>>
    /\ LET sl == Len(_scale_factors) - 1
           sc == _scale
           nsc == IF delta > 0 /\ sc < sl THEN sc + 1
                  ELSE IF delta < 0 /\ sc > 0 THEN sc - 1
                  ELSE sc
       IN  /\ _scale' = nsc
           /\ IF nsc # sc
              THEN SetDrawing(_on_resize_(Drawing, _points, _fixed, _average,
                                          _stddev, winfo), "_on_zoom")
              ELSE NoOp("_on_zoom")

\* the Scale widget writes _scale: ScatterViewFrame._on_rescale
_on_rescale(value) ==
    /\ pc = "idle"
    /\ UNCHANGED <<gnss_status, _points, _average, _stddev, _fixed, _centermode,
                   _autorange, _reflat, _reflon, winfo, pc, middle>>
    /\ _scale' = value
    /\ SetDrawing(_on_resize_(Drawing, _points, _fixed, _average, _stddev, winfo),
                  "_on_rescale")

\* a <Configure> event, the canvas now of this size: ScatterViewFrame._on_resize
_on_resize(size) ==
    /\ pc = "idle"
    /\ UNCHANGED <<gnss_status, _points, _average, _stddev, _fixed, _centermode,
                   _autorange, _reflat, _reflon, _scale, pc, middle>>
    /\ winfo' = size
    /\ SetDrawing(_on_resize_(Drawing, _points, _fixed, _average, _stddev, size),
                  "_on_resize")

\* ScatterViewFrame._on_recenter: a right click at canvas x, y.  Without a
\* box _xy2ll raises and the handler ends there.
_on_recenter(x, y) ==
    /\ pc = "idle"
    /\ UNCHANGED <<gnss_status, _points, _average, _stddev, _centermode,
                   _autorange, _scale, winfo, pc, middle>>
    /\ NoOp("_on_recenter")
    /\ IF _bounds = None
       THEN UNCHANGED <<_reflat, _reflon, _fixed>>
       ELSE LET pos == _xy2ll(Val(_bounds), winfo, [x |-> RInt(x), y |-> RInt(y)])
            IN  /\ _reflat' = FloatTxt(Round(pos.lat, 9))
                /\ _reflon' = FloatTxt(Round(pos.lon, 9))
                /\ _fixed' = Some(Point(Round(pos.lat, 9), Round(pos.lon, 9)))

\* ScatterViewFrame._on_clear: a double click
_on_clear ==
    /\ pc = "idle"
    /\ UNCHANGED <<gnss_status, _average, _stddev, _fixed, _centermode,
                   _autorange, _scale, _reflat, _reflon, winfo, pc, middle>>
    /\ _points' = << >>
    /\ SetDrawing(_init_frame(Drawing), "_on_clear")

\* the widgets of _body bound to the variables: the Autorange checkbox,
\* the centre Spinbox and the two reference entries
Checkbutton(autorange) ==
    /\ pc = "idle"
    /\ _autorange' = autorange
    /\ NoOp("_chk_autorange")
    /\ UNCHANGED <<gnss_status, _points, _average, _stddev, _fixed, _scale,
                   _centermode, _reflat, _reflon, winfo, pc, middle>>

Spinbox(centermode) ==
    /\ pc = "idle"
    /\ _centermode' = centermode
    /\ NoOp("_spn_center")
    /\ UNCHANGED <<gnss_status, _points, _average, _stddev, _fixed, _scale,
                   _autorange, _reflat, _reflon, winfo, pc, middle>>

Entry(reflat, reflon) ==
    /\ pc = "idle"
    /\ _reflat' = reflat
    /\ _reflon' = reflon
    /\ NoOp("_ent_ref")
    /\ UNCHANGED <<gnss_status, _points, _average, _stddev, _fixed, _scale,
                   _autorange, _centermode, winfo, pc, middle>>

----------------------------------------------------------------------------
(* Initial states *)

InitReducer ==
    /\ nmea = InitNMEA
    /\ gsv_data = << >>
    /\ gsv_log = << >>
    /\ GNSS_status = InitGNSSStatus
    /\ clock = 0
    /\ calls = << >>
    /\ last = [raw |-> NONE, msg |-> [msgID |-> ""]]
    /\ sent = 0

\* the saved configuration: scatterscale_n, scatterautorange_b,
\* scattercenter_s, scatterlat_f and scatterlon_f
Sizes == {<<400, 400>>, <<400, 200>>}

InitScatterWith(scale, autorange, centermode, ref) ==
    /\ gnss_status = [lat |-> N(0), lon |-> N(0), fix |-> "NO FIX"]
    /\ _points = << >>
    /\ _average = None
    /\ _stddev = None
    /\ _fixed = None
    /\ _bounds = None
    /\ _lastbounds = Some(Area(RInt(0), RInt(0), RInt(0), RInt(0)))
    /\ _range = RInt(0)
    /\ _autorange = autorange
    /\ _centermode = centermode
    /\ _scale = scale
    /\ _reflat = ref
    /\ _reflon = ref
    /\ winfo = <<400, 400>>
    /\ canvas = [frame |-> None, markers |-> {}, avg |-> None]
    /\ pc = "idle"
    /\ ui = 0
    /\ middle = None
    /\ op = [name |-> "__init__", log |-> << >>]

\* the defaults: autorange on, scale index 9, mode "Average", no reference
InitScatterDefault == InitScatterWith(9, 1, CTRAVG, Txt("Reference"))

\* the defaults, or a saved fixed centre without autorange
InitScatter ==
    \/ InitScatterDefault
    \/ InitScatterWith(9, 0, CTRFIX, FloatTxt(RInt(36)))

InitProj == proj = [stage |-> "none"]

----------------------------------------------------------------------------
(* The sentences fed to the reducer *)

Slot(svid, cno) == [svid |-> svid, elv |-> N(45), az |-> N(120), cno |-> cno]

\* a sentence of each type with every field filled, and the same with one
\* field (or the position) empty or malformed
RMC(t, lat, lon, spd, cog) ==
    [msgID |-> "RMC", time |-> t, lat |-> lat, lon |-> lon, spd |-> spd,
     cog |-> cog]

RMCs ==
    {RMC(S("120000"), N(515), N(-1), N(10000), N(90)),
     RMC(EMPTY, N(515), N(-1), N(10000), N(90)),
     RMC(S("120000"), EMPTY, EMPTY, N(10000), N(90)),
     RMC(S("120000"), N(515), N(-1), EMPTY, N(90)),
     RMC(S("120000"), N(515), N(-1), N(10000), EMPTY),
     RMC(S("120000"), N(515), N(-1), S("x"), N(90))}

GGA(lat, lon, alt, q) ==
    [msgID |-> "GGA", time |-> S("120000"), numSV |-> N(8), lat |-> lat,
     lon |-> lon, alt |-> alt, sep |-> N(47), quality |-> q,
     diffAge |-> EMPTY, diffStation |-> N(7)]

GGAs ==
    {GGA(N(515), N(-1), N(100), N(1)),
     GGA(N(515), N(-1), N(100), N(0)),
     GGA(N(515), N(-1), EMPTY, N(1)),
     GGA(N(515), EMPTY, N(100), N(1)),
     GGA(EMPTY, EMPTY, N(100), N(1))}

GLLs ==
    {[msgID |-> "GLL", time |-> S("120000"), lat |-> ll[1], lon |-> ll[2]] :
        ll \in {<<EMPTY, EMPTY>>, <<N(515), N(-1)>>}}

GSAs ==
    {[msgID |-> "GSA", PDOP |-> N(21), HDOP |-> N(11), VDOP |-> N(17),
      navMode |-> m] : m \in {N(1), N(3)}}

VTGs ==
    {[msgID |-> "VTG", cogt |-> N(180), sogk |-> N(36000)],
     [msgID |-> "VTG", cogt |-> EMPTY, sogk |-> N(36000)],
     [msgID |-> "VTG", cogt |-> N(180), sogk |-> EMPTY]}

UBXs ==
    {[msgID |-> "UBX", msgId |-> "00", hAcc |-> N(3), vAcc |-> N(6)],
     [msgID |-> "UBX", msgId |-> "03"]}

Others == {[msgID |-> "ZDA"]}

FixSentences ==
    RMCs \cup GGAs \cup GLLs \cup GSAs \cup VTGs \cup UBXs \cup Others
        \cup {[msgID |-> "GSV", talker |-> "GP", slots |-> << >>]}

----------------------------------------------------------------------------
(* The reducer fed with position, fix and accuracy sentences *)

\* one sentence of each type, for the calls without raw data
RawlessSentences ==
    {RMC(S("120000"), N(515), N(-1), N(10000), N(90)),
     GGA(N(515), N(-1), N(100), N(1)),
     [msgID |-> "GLL", time |-> S("120000"), lat |-> N(515), lon |-> N(-1)],
     [msgID |-> "GSA", PDOP |-> N(21), HDOP |-> N(11), VDOP |-> N(17),
      navMode |-> N(3)],
     [msgID |-> "VTG", cogt |-> N(180), sogk |-> N(36000)],
     [msgID |-> "UBX", msgId |-> "00", hAcc |-> N(3), vAcc |-> N(6)],
     [msgID |-> "GSV", talker |-> "GP", slots |-> << Slot(N(1), N(30)) >>]}

Feed ==
    /\ \/ \E parsed_data \in FixSentences : process_data(RAW, parsed_data)
       \/ \E parsed_data \in RawlessSentences : process_data(NONE, parsed_data)
    /\ UNCHANGED <<sent, scattervars, proj>>

\* the "record track" setting is switched
Settings ==
    /\ record_track' = ~record_track
    /\ UNCHANGED <<nmea, gsv_data, gsv_log, GNSS_status, show_zero, clock, calls,
                   last, sent, scattervars, proj>>

InitFix ==
    /\ InitReducer /\ show_zero = FALSE /\ record_track = FALSE
    /\ InitScatterDefault /\ InitProj

NextFix == Feed \/ Settings

SpecFix == InitFix /\ [][NextFix]_vars

----------------------------------------------------------------------------
(* The status record written by the reducer and by other callers *)

\* keyword arguments of a direct call: none, known keys, an unknown key
Kwargs ==
    {<< >>, [lat |-> N(1)], [fix |-> N(3), siv |-> N(8)],
     [bogus |-> N(9)], [lat |-> N(2), bogus |-> N(9)]}

StatusSentences ==
    {RMC(S("120000"), N(515), N(-1), N(10000), N(90)),
     GGA(N(515), N(-1), EMPTY, N(1)),
     [msgID |-> "GSA", PDOP |-> N(21), HDOP |-> N(11), VDOP |-> N(17),
      navMode |-> N(3)],
     [msgID |-> "GLL", time |-> S("120000"), lat |-> EMPTY, lon |-> EMPTY]}

\* a caller other than the reducer writes the status record
StatusWrite ==
    /\ \E kwargs \in Kwargs :
          /\ GNSS_status' = set_GNSS_status(GNSS_status, kwargs)
          /\ calls' = << Call("set_GNSS_status", kwargs) >>
    /\ UNCHANGED <<nmea, gsv_data, gsv_log, show_zero, record_track, clock,
                   last, sent, scattervars, proj>>

FeedStatus ==
    /\ \E parsed_data \in StatusSentences : process_data(RAW, parsed_data)
    /\ UNCHANGED <<sent, scattervars, proj>>

NextStatus == FeedStatus \/ StatusWrite

SpecStatus == InitFix /\ [][NextStatus]_vars

----------------------------------------------------------------------------

(* The reducer fed with satellites-in-view sentences while time passes *)

MaxClock == 2
MaxSentences == 2

GSV(talker, slots) == [msgID |-> "GSV", talker |-> talker, slots |-> slots]

\* sentences whose slots all carry the signal level cno: four satellites, two,
\* three with the first slot empty, none; and one satellite of each of the
\* other constellations
GSVOf(cno) ==
    {GSV("GP", << Slot(N(1), cno), Slot(N(2), cno), Slot(N(3), cno),
                  Slot(N(4), cno) >>),
     GSV("GP", << Slot(N(1), cno), Slot(N(2), cno) >>),
     GSV("GP", << Slot(EMPTY, cno), Slot(N(2), cno), Slot(N(3), cno) >>),
     GSV("GL", << Slot(N(1), cno) >>)}

GSVSentences ==
    GSVOf(EMPTY) \cup GSVOf(N(0)) \cup GSVOf(N(30))
        \cup {GSV("GP", << >>), GSV("GA", << Slot(N(1), N(30)) >>),
              GSV("GB", << Slot(N(1), N(30)) >>)}

FeedGSV ==
    /\ sent < MaxSentences
    /\ sent' = sent + 1
    /\ \E parsed_data \in GSVSentences : process_data(RAW, parsed_data)
    /\ UNCHANGED <<scattervars, proj>>

\* time() moves on
Tick ==
    /\ clock < MaxClock
    /\ clock' = clock + 1
    /\ UNCHANGED <<nmea, gsv_data, gsv_log, GNSS_status, show_zero, record_track,
                   calls, last, sent, scattervars, proj>>

\* the "show zero signal" setting is switched
ShowZero ==
    /\ show_zero' = ~show_zero
    /\ UNCHANGED <<nmea, gsv_data, gsv_log, GNSS_status, record_track, clock,
                   calls, last, sent, scattervars, proj>>

InitGSV ==
    /\ InitReducer /\ show_zero = FALSE /\ record_track = FALSE
    /\ InitScatterDefault /\ InitProj

NextGSV == FeedGSV \/ Tick \/ ShowZero

SpecGSV == InitGSV /\ [][NextGSV]_vars

----------------------------------------------------------------------------
(* The sixteen satellite scenario: four sentences of four GPS satellites,  *)
(* and the sentence that reports none                                      *)

MaxScenario == 5

Block(b, cno) ==
    GSV("GP", << Slot(N(4 * b + 1), cno), Slot(N(4 * b + 2), cno),
                 Slot(N(4 * b + 3), cno), Slot(N(4 * b + 4), cno) >>)

ScenarioSentences == {Block(b, N(30)) : b \in 0..3} \cup {GSV("GP", << >>)}

FeedScenario ==
    /\ sent < MaxScenario
    /\ sent' = sent + 1
    /\ \E parsed_data \in ScenarioSentences : process_data(RAW, parsed_data)
    /\ UNCHANGED <<scattervars, proj>>

NextScenario == FeedScenario \/ Tick

SpecScenario == InitGSV /\ [][NextScenario]_vars

----------------------------------------------------------------------------
(* The scatterplot fed with fixes and user events *)

\* the status update_frame finds: fixes at three places, a position that is
\* empty or not a number, and no fix
Statuses ==
    {[lat |-> N(0), lon |-> N(0), fix |-> "3D"],
     [lat |-> N(0), lon |-> N(36), fix |-> "3D"],
     [lat |-> N(12000), lon |-> N(0), fix |-> "3D"],
     [lat |-> EMPTY, lon |-> N(0), fix |-> "3D"],
     [lat |-> N(36), lon |-> S("x"), fix |-> "3D"],
     [lat |-> N(36), lon |-> N(36), fix |-> "NO FIX"]}

RefTexts == {<<Txt("12"), Txt("12")>>, <<Txt("12"), Txt("x")>>}

ScaleWrites == {0, MaxScale}

Clicks == {<<200, 100>>}

MaxUser == 1

User ==
    /\ ui < MaxUser
    /\ ui' = ui + 1
    /\ \/ \E delta \in {-1, 1} : _on_zoom(delta)
       \/ \E value \in ScaleWrites : _on_rescale(value)
       \/ \E size \in Sizes \ {winfo} : _on_resize(size)
       \/ \E xy \in Clicks : _on_recenter(xy[1], xy[2])
       \/ _on_clear
       \/ Checkbutton(1 - _autorange)
       \/ Spinbox(IF _centermode = CTRAVG THEN CTRFIX ELSE CTRAVG)
       \/ \E ref \in RefTexts : Entry(ref[1], ref[2])
    /\ UNCHANGED <<nmeavars, proj>>

Update ==
    /\ \E status \in Statuses : update_frame(status)
    /\ UNCHANGED <<nmeavars, proj>>

Autorange == _do_autorange /\ UNCHANGED <<nmeavars, proj>>

NextScatter == Update \/ Autorange \/ User

InitScatterSpec ==
    /\ InitReducer /\ show_zero = FALSE /\ record_track = FALSE
    /\ InitScatter /\ InitProj

SpecScatter == InitScatterSpec /\ [][NextScatter]_vars

\* The autorange loop is straight-line code of update_frame: once begun it
\* is run on.  This is the weak fairness of Autorange with its enabling
\* condition written out: the loop step can be taken exactly when pc is
\* "autorange", and every loop step changes pc or _scale.
AutorangeRunsOn == []<>(pc # "autorange") \/ []<><<Autorange>>_vars

SpecAutorange == SpecScatter /\ AutorangeRunsOn

----------------------------------------------------------------------------
(* The scale under mouse wheel zoom and autorange, from either end *)

ZoomStatuses ==
    {[lat |-> N(0), lon |-> N(0), fix |-> "3D"],
     [lat |-> N(12000), lon |-> N(0), fix |-> "3D"],
     [lat |-> N(36), lon |-> N(36), fix |-> "NO FIX"]}

Zoom ==
    /\ \E delta \in {-1, 1} : _on_zoom(delta)
    /\ UNCHANGED <<ui, nmeavars, proj>>

UpdateZoom ==
    /\ \E status \in ZoomStatuses : update_frame(status)
    /\ UNCHANGED <<nmeavars, proj>>

\* the saved scale is the largest radius, the default or the smallest radius
InitZoom ==
    /\ InitReducer /\ show_zero = FALSE /\ record_track = FALSE
    /\ \E scale \in {0, 9, MaxScale} :
           InitScatterWith(scale, 1, CTRAVG, Txt("Reference"))
    /\ InitProj

NextZoom == Zoom \/ UpdateZoom \/ Autorange

SpecZoom == InitZoom /\ [][NextZoom]_vars

----------------------------------------------------------------------------

(* The projection and its inverse, applied to points of a box *)

ProjGrid == 3

ProjBoxes ==
    {Area(RInt(0), RInt(0), RInt(10), RInt(10)),
     Area(RInt(-5), RInt(20), RInt(5), RInt(60)),
     Area(Rat(1, 2), Rat(-1, 4), Rat(3, 2), Rat(3, 4))}

ProjSizes == Sizes \cup {<<300, 500>>}

\* the points of the box on a grid of ProjGrid steps a side, edges included
ProjPoints(bounds) ==
    {Point(RAdd(bounds.lat1,
                RDiv(RMul(RInt(i), RSub(bounds.lat2, bounds.lat1)), RInt(ProjGrid))),
           RAdd(bounds.lon1,
                RDiv(RMul(RInt(j), RSub(bounds.lon2, bounds.lon1)), RInt(ProjGrid)))) :
        i \in 0..ProjGrid, j \in 0..ProjGrid}

ProjPick ==
    /\ proj.stage = "none"
    /\ \E bounds \in ProjBoxes, size \in ProjSizes :
           \E p \in ProjPoints(bounds) :
               proj' = [stage |-> "ll", bounds |-> bounds, size |-> size, p |-> p]
    /\ UNCHANGED <<nmeavars, scattervars>>

ProjLL2XY ==
    /\ proj.stage = "ll"
    /\ proj' = [stage |-> "xy", bounds |-> proj.bounds, size |-> proj.size,
                p |-> proj.p, xy |-> _ll2xy(proj.bounds, proj.size, proj.p)]
    /\ UNCHANGED <<nmeavars, scattervars>>

ProjXY2LL ==
    /\ proj.stage = "xy"
    /\ proj' = [stage |-> "back", bounds |-> proj.bounds, size |-> proj.size,
                p |-> proj.p, xy |-> proj.xy,
                q |-> _xy2ll(proj.bounds, proj.size, proj.xy)]
    /\ UNCHANGED <<nmeavars, scattervars>>

NextProj == ProjPick \/ ProjLL2XY \/ ProjXY2LL

InitProjSpec ==
    /\ InitReducer /\ show_zero = FALSE /\ record_track = FALSE
    /\ InitScatterDefault /\ InitProj

SpecProj == InitProjSpec /\ [][NextProj]_vars

----------------------------------------------------------------------------
(* Properties of the sentence reducer *)

\* the Fix State fields a sentence of this type reports
Schema(msg) ==
    IF msg.msgID = "RMC" THEN {"utc", "lat", "lon", "speed", "track"}
    ELSE IF msg.msgID = "GGA"
        THEN {"utc", "sip", "lat", "lon", "alt", "sep", "fix", "diffAge",
              "diffStation"}
    ELSE IF msg.msgID = "GLL" THEN {"utc", "lat", "lon"}
    ELSE IF msg.msgID = "GSA" THEN {"pdop", "hdop", "vdop", "fix"}
    ELSE IF msg.msgID = "VTG" THEN {"track", "speed"}
    ELSE IF msg.msgID = "UBX" /\ msg.msgId = "00" THEN {"hacc", "vacc"}
    ELSE {}

\* C1: a process_data call with raw data present leaves every Fix State
\* field that is not in the schema of the sentence's type at the value it
\* had before the call.
C1_FieldsOutsideSchemaKept ==
    [][last'.raw = RAW =>
          \A f \in Fields \ Schema(last'.msg) : nmea'[f] = nmea[f]]_vars

\* a lat/lon-only sentence has been processed after a fix-quality sentence
\* had set the fix, the altitude and the satellite count, and they stand
C1_Witness ==
    /\ last.raw = RAW
    /\ last.msg.msgID = "GLL"
    /\ nmea["fix"] = N(3)
    /\ nmea["alt"] = N(100)
    /\ nmea["sip"] = N(8)
    /\ nmea["lat"] = EMPTY

\* C10: a process_data call without raw data changes no Fix State field,
\* neither the satellite log nor the visible list, calls no display
\* consumer and does not write the shared status record, whatever the
\* decoded sentence is.
C10_RawlessCallIsNoOp ==
    [][last'.raw = NONE =>
          /\ nmea' = nmea
          /\ gsv_log' = gsv_log
          /\ gsv_data' = gsv_data
          /\ GNSS_status' = GNSS_status
          /\ calls' = << >>]_vars

\* a fix-quality sentence came without raw data after a lat/lon-only
\* sentence had been processed: the fix is the one of __init__ still
C10_Witness ==
    /\ last.raw = NONE
    /\ last.msg.msgID = "GGA"
    /\ nmea["lat"] = N(515)
    /\ nmea["fix"] = N(0)
    /\ nmea["sip"] = N(0)
    /\ calls = << >>

\* the log record of an entry of the visible list
LogOf(log, e) ==
    log[CHOOSE i \in DOMAIN log : log[i].key = SatKey(e.gnssId, e.svid)].val

\* every satellite of the log was last reported SAT_EXPIRY or more ago
AllExpired(log, now) ==
    \A i \in DOMAIN log : now - log[i].val.lastupdate >= SAT_EXPIRY

\* C2: right after a satellites-in-view sentence is processed, no entry of
\* the visible list was last reported SAT_EXPIRY or more ago and, with
\* "show zero" off, none has the signal level "", "0" or 0.
C2_VisibleListFreshAndNonZero ==
    [][(sent' = sent + 1 /\ last'.msg.msgID = "GSV") =>
          \A i \in DOMAIN gsv_data' :
              /\ clock' - LogOf(gsv_log', gsv_data'[i]).lastupdate < SAT_EXPIRY
              /\ ~show_zero' =>
                     gsv_data'[i].snr \notin {S(""), S("0"), N(0)}]_vars

\* a sentence has just been processed with "show zero" off: its satellite,
\* dated now, has no signal; the log also holds a satellite with signal
\* reported SAT_EXPIRY ago; neither is in the visible list
C2_Witness ==
    /\ ~show_zero
    /\ sent = MaxSentences
    /\ \E i \in DOMAIN gsv_log :
           /\ gsv_log[i].val.lastupdate = clock
           /\ gsv_log[i].val.snr = S("0")
    /\ \E i \in DOMAIN gsv_log :
           /\ clock - gsv_log[i].val.lastupdate >= SAT_EXPIRY
           /\ gsv_log[i].val.snr = S("30")
    /\ gsv_data = << >>

\* C3, as stated: once four sentences have reported sixteen GPS satellites
\* with signal and the clock has passed the expiry window of all of them,
\* the visible list is empty and the log holds sixteen entries.
C3_EmptyOnceTimePassed ==
    (sent = 4 /\ Len(gsv_log) = 16 /\ AllExpired(gsv_log, clock)) =>
        (gsv_data = << >> /\ Len(gsv_log) = 16)

\* C3, amended: the passing of time alone changes neither the visible list
\* nor the log; when after the four sentences and the expiry window a
\* further satellites-in-view sentence reporting no satellite is
\* processed, it leaves the visible list empty and the sixteen log entries.
C3_EmptyAtNextSentence ==
    [][/\ clock' # clock => (gsv_data' = gsv_data /\ gsv_log' = gsv_log)
       /\ (/\ sent' = sent + 1
           /\ sent >= 4
           /\ Len(gsv_log) = 16
           /\ AllExpired(gsv_log, clock)
           /\ last'.msg.slots = << >>) =>
              (gsv_data' = << >> /\ Len(gsv_log') = 16)]_vars

\* the four sentences, the expiry window and the fifth sentence have gone by
C3_Witness ==
    /\ sent = 5
    /\ last.msg.slots = << >>
    /\ Len(gsv_log) = 16
    /\ AllExpired(gsv_log, clock)
    /\ \A i \in DOMAIN gsv_log : gsv_log[i].val.snr = S("30")
    /\ gsv_data = << >>

----------------------------------------------------------------------------
(* Properties of the scatterplot *)

\* the step is a call of update_frame; gnss_status' is the status it read
UpdateStep == pc = "idle" /\ op'.name = "update_frame"

Numeric(status) == IsFloat(status.lat) /\ IsFloat(status.lon)

IsLast(status, points) ==
    /\ points # << >>
    /\ points[Len(points)].lat = RInt(Float(status.lat))
    /\ points[Len(points)].lon = RInt(Float(status.lon))

\* C4: the point history never holds more than MAXPOINTS points; a call
\* of update_frame that accepts a point while the history holds MAXPOINTS
\* removes the oldest and keeps the others in order, the new point last;
\* below MAXPOINTS it appends the new point.
C4_HistoryBoundedFifo ==
    /\ [](Len(_points) <= MAXPOINTS)
    /\ [][(/\ UpdateStep
           /\ Numeric(gnss_status')
           /\ gnss_status'.fix # "NO FIX"
           /\ ~IsLast(gnss_status', _points)) =>
              LET pos == Point(RInt(Float(gnss_status'.lat)),
                               RInt(Float(gnss_status'.lon)))
              IN  IF Len(_points) = MAXPOINTS
                  THEN /\ Len(_points') = MAXPOINTS
                       /\ \A i \in 1..(MAXPOINTS - 1) : _points'[i] = _points[i + 1]
                       /\ _points'[MAXPOINTS] = pos
                  ELSE _points' = Append(_points, pos)]_vars

\* the history is full, the point accepted last is its last entry, and the
\* canvas still shows the marker of a point that is no longer in it
C4_Witness ==
    /\ pc = "idle"
    /\ op.name = "update_frame"
    /\ Len(_points) = MAXPOINTS
    /\ Numeric(gnss_status)
    /\ IsLast(gnss_status, _points)
    /\ \E m \in canvas.markers :
           m.color = PNTCOL /\ \A i \in DOMAIN _points : _points[i] # m.pos

\* C5: a call of update_frame whose lat and lon are those of the last
\* point of the history leaves the history as it is, so no two neighbours
\* in the history are equal.
C5_RepeatedPointIgnored ==
    /\ [](\A i \in 1..(Len(_points) - 1) : _points[i] # _points[i + 1])
    /\ [][(/\ UpdateStep
           /\ Numeric(gnss_status')
           /\ IsLast(gnss_status', _points)) => _points' = _points]_vars

\* update_frame has just returned on reading the position of the last
\* point again, with a fix; the history holds two points
C5_Witness ==
    /\ pc = "idle"
    /\ op = [name |-> "update_frame", log |-> << >>]
    /\ Numeric(gnss_status)
    /\ gnss_status.fix # "NO FIX"
    /\ IsLast(gnss_status, _points)
    /\ Len(_points) = 2

\* C6: the autorange loop, once begun, comes to its end (each iteration
\* lowers the scale index, which stays at or above 0); when it ends, every
\* point of the history is within the box or the scale index is 0.
C6_AutorangeTerminates ==
    /\ (pc = "autorange") ~> (pc = "idle")
    /\ [][(pc = "autorange" /\ pc' = "autorange") =>
              (0 <= _scale' /\ _scale' < _scale)]_vars
    /\ [][(pc = "autorange" /\ pc' = "idle") =>
              \/ _scale' = 0
              \/ \A i \in DOMAIN _points' : in_bounds(Val(_bounds'), _points'[i])]_vars

\* the loop has ended above index 0 after at least one iteration (the box
\* was redrawn for a scale that _on_rescale had redrawn first)
C6_Witness ==
    /\ pc = "idle"
    /\ op.name = "update_frame"
    /\ _scale > 0
    /\ Len(_points) = 2
    /\ \E i \in DOMAIN op.log : op.log[i] = "_redraw" /\ i < Len(op.log)
    /\ \A i \in DOMAIN _points : in_bounds(Val(_bounds), _points[i])

\* C7, as stated: with autorange on, the scale at index 0 and a point of
\* the history outside the box, the update makes the scale index greater.
C7_ScaleIncreasesFromIndex0 ==
    [][(/\ pc = "autorange"
        /\ _autorange # 0
        /\ _scale = 0
        /\ \E i \in DOMAIN _points : ~in_bounds(Val(_bounds), _points[i])) =>
           _scale' > _scale]_vars

\* C7, amended: index 0 is the greatest radius (5000 m) and the last index
\* the smallest (0.01 m).  With autorange on and a point of the history
\* outside the box, each iteration of the update makes the scale index one
\* less and the radius greater, down to index 0; at index 0 the update
\* leaves the scale as it is, whatever is outside the box.
C7_ScaleDecreasesToIndex0 ==
    [][(pc = "autorange" /\ _autorange # 0) =>
          IF _scale > 0 /\ \E i \in DOMAIN _points :
                               ~in_bounds(Val(_bounds), _points[i])
          THEN /\ _scale' = _scale - 1
               /\ RLt(ScaleFactor(_scale), ScaleFactor(_scale'))
               /\ _scale = MaxScale => ScaleFactor(_scale) = Rat(1, 100)
               /\ _scale' = 0 => ScaleFactor(_scale') = RInt(5000)
          ELSE _scale' = _scale]_vars

\* started at the last index with a far point, the update has come down
\* to index 0 and the point is outside the box still
C7_Witness ==
    /\ pc = "idle"
    /\ op.name = "update_frame"
    /\ _autorange # 0
    /\ _scale = 0
    /\ Len(op.log) >= 3 * MaxScale
    /\ \E i \in DOMAIN _points : ~in_bounds(Val(_bounds), _points[i])

\* C9: a call of update_frame that finds a lat or lon that is not a number,
\* or no fix, changes nothing: not the history, the average, the standard
\* deviation, the fixed reference, the centre mode, the box or the scale,
\* and it draws nothing.
C9_UpdateIgnoredWithoutFix ==
    [][(/\ UpdateStep
        /\ \/ ~Numeric(gnss_status')
           \/ gnss_status'.fix = "NO FIX") =>
           /\ UNCHANGED <<_points, _average, _stddev, _fixed, _centermode,
                          _bounds, _lastbounds, _range, _scale, canvas>>
           /\ pc' = "idle"
           /\ op'.log = << >>]_vars

\* update_frame has just returned on a status without fix whose position
\* is a number and not the last point; the history holds a point
C9_Witness ==
    /\ pc = "idle"
    /\ op = [name |-> "update_frame", log |-> << >>]
    /\ gnss_status.fix = "NO FIX"
    /\ Numeric(gnss_status)
    /\ _points # << >>
    /\ ~IsLast(gnss_status, _points)

----------------------------------------------------------------------------
(* Properties of the projection *)

\* C8: for a box of positive width and height, a canvas size and a point
\* of the box, _ll2xy maps lon linearly to x (west edge to 0, east edge
\* to the width) and lat linearly to y, flipped (north edge to 0, south
\* edge to the height), and _xy2ll of the result is the point.
C8_ProjectionRoundTrip ==
    /\ proj.stage \in {"xy", "back"} =>
           LET b == proj.bounds
               cw == RInt(proj.size[1])
               ch == RInt(proj.size[2])
           IN  /\ proj.xy.x = RDiv(RMul(cw, RSub(proj.p.lon, b.lon1)),
                                   RSub(b.lon2, b.lon1))
               /\ proj.xy.y = RDiv(RMul(ch, RSub(b.lat2, proj.p.lat)),
                                   RSub(b.lat2, b.lat1))
    /\ proj.stage = "back" => proj.q = proj.p

\* a point off the centre lines of a box on a canvas that is not square
\* has gone there and back
C8_Witness ==
    /\ proj.stage = "back"
    /\ proj.size[1] # proj.size[2]
    /\ proj.q = proj.p
    /\ proj.xy.y # RDiv(RInt(proj.size[2]), RInt(2))
    /\ RLt(RInt(0), proj.xy.y)
    /\ RLt(RInt(0), proj.xy.x)

----------------------------------------------------------------------------
(* Further properties of the sentence reducer *)

\* the numeric conversion of the handler of this sentence raises ValueError
ConversionFails(msg) ==
    \/ msg.msgID = "RMC" /\ msg.spd # EMPTY /\ ~IsFloat(msg.spd)
    \/ msg.msgID = "VTG" /\ ~IsFloat(msg.sogk)

\* the fields the handler assigns before it converts
AssignedFirst(msg) ==
    IF msg.msgID = "RMC" THEN {"utc", "lat", "lon"} ELSE {"track"}

\* C11: when the numeric conversion of a sentence handler raises
\* ValueError, the handler reports one status message and nothing else,
\* process_data goes on to write the shared status record from the Fix
\* State, and every Fix State field but those the handler had assigned
\* before the conversion, the converted one included, keeps its value.
C11_ConversionFailureContained ==
    [][(last'.raw = RAW /\ ConversionFails(last'.msg)) =>
          /\ Len(calls') = 2
          /\ calls'[1] = [fn |-> "set_status", args |-> [color |-> S("red")]]
          /\ calls'[2].fn = "set_GNSS_status"
          /\ \A parm \in DOMAIN calls'[2].args :
                 /\ calls'[2].args[parm] = nmea'[parm]
                 /\ GNSS_status'[parm] = nmea'[parm]
          /\ \A f \in Fields \ AssignedFirst(last'.msg) : nmea'[f] = nmea[f]]_vars

\* a track/speed sentence with an empty speed has been processed after a
\* position sentence had set speed and track: the speed stands, the track
\* is the new one, and the one status message was followed by the write of
\* the status record
C11_Witness ==
    /\ last.raw = RAW
    /\ last.msg.msgID = "VTG"
    /\ last.msg.sogk = EMPTY
    /\ nmea["speed"] = N(5144)
    /\ nmea["track"] = N(180)
    /\ nmea["lat"] = N(515)
    /\ Len(calls) = 2
    /\ calls[1].fn = "set_status"
    /\ GNSS_status["lat"] = N(515)

\* the optional fields of a sentence, each with the Fix State field it feeds
Optional(msg) ==
    CASE msg.msgID = "RMC" ->
             {<<"time", "utc">>, <<"lat", "lat">>, <<"lon", "lon">>,
              <<"cog", "track">>}
      [] msg.msgID = "GGA" ->
             {<<"time", "utc">>, <<"lat", "lat">>, <<"lon", "lon">>,
              <<"alt", "alt">>}
      [] msg.msgID = "GLL" ->
             {<<"time", "utc">>, <<"lat", "lat">>, <<"lon", "lon">>}
      [] msg.msgID = "GSA" ->
             {<<"PDOP", "pdop">>, <<"HDOP", "hdop">>, <<"VDOP", "vdop">>}
      [] msg.msgID = "VTG" -> {<<"cogt", "track">>}
      [] OTHER -> {}

\* C12: in every sentence handler an empty time, lat, lon, alt, course or
\* DOP of the sentence is skipped: the Fix State field it feeds keeps the
\* value it had before the sentence.
C12_EmptyFieldKeepsStored ==
    [][last'.raw = RAW =>
          \A p \in Optional(last'.msg) :
              last'.msg[p[1]] = EMPTY => nmea'[p[2]] = nmea[p[2]]]_vars

\* the Fix State fields whose key the shared status record holds
SharedFields ==
    {"utc", "lat", "lon", "alt", "speed", "track", "fix", "sip", "pdop",
     "hdop", "vdop", "hacc", "vacc", "sep", "diffAge", "diffStation"}

\* C13: after a process_data call with raw data, the status record's value
\* of every Fix State field it has a key for equals the reducer's value of
\* that field.
C13_StatusRecordMirrorsFixState ==
    last.raw = RAW =>
        \A f \in SharedFields : GNSS_status[f] = nmea[f]

\* the last call the step made on the app is a write of the status record
WritesStatus(log) == Len(log) > 0 /\ log[Len(log)].fn = "set_GNSS_status"

\* C14: the status record keeps its key set, and a set_GNSS_status call
\* with any keyword arguments gives every key that is passed and is in the
\* record the passed value, adds no key, and leaves every other key's value.
C14_StatusKeysFixed ==
    [][/\ DOMAIN GNSS_status' = DOMAIN GNSS_status
       /\ (WritesStatus(calls') /\ <<calls, GNSS_status>>' # <<calls, GNSS_status>>) =>
              LET kwargs == calls'[Len(calls')].args
              IN  \A key \in DOMAIN GNSS_status :
                      GNSS_status'[key] = IF key \in DOMAIN kwargs
                                          THEN kwargs[key]
                                          ELSE GNSS_status[key]]_vars

\* a direct call passed lat and an unknown key after the reducer had
\* published an HDOP: lat is written, the unknown key is not in the record,
\* the HDOP stands
C14_Witness ==
    /\ calls = << [fn |-> "set_GNSS_status",
                   args |-> [lat |-> N(2), bogus |-> N(9)]] >>
    /\ GNSS_status["lat"] = N(2)
    /\ "bogus" \notin DOMAIN GNSS_status
    /\ GNSS_status["hdop"] = N(11)
    /\ nmea["lat"] = N(515)

----------------------------------------------------------------------------
(* Further properties of the scatterplot *)

\* the centre the box is drawn around: the fixed reference in "Fixed" mode,
\* the average otherwise
Centre(centermode, fixed, average) ==
    IF centermode = CTRFIX /\ fixed # None THEN fixed ELSE average

\* C15: after any operation that changes the scale index (mouse wheel, scale
\* widget, autorange step) the stored range is the radius
\* _scale_factors[scale index] and, once there is a centre, the stored
\* bounding box is the one derived from the centre and that radius.
C15_BoundsFollowScale ==
    [][_scale' # _scale =>
          /\ _range' = ScaleFactor(_scale')
          /\ LET c == Centre(_centermode', _fixed', _average')
             IN  c # None =>
                     _bounds' = _set_bounds(Drawing, Val(c), _scale', winfo').bounds]_vars

\* C16: in every step of an update_frame call, the autorange loop included,
\* the scale index stays or goes down by one, and the visible radius
\* _scale_factors[scale index] does not get smaller; so the radius after
\* the call is at least the radius before it.
C16_AutorangeOnlyZoomsOut ==
    [][(UpdateStep \/ pc = "autorange") =>
          /\ _scale' \in {_scale, _scale - 1}
          /\ _scale' >= 0
          /\ RLe(_scale_factors[_scale + 1], _scale_factors[_scale' + 1])]_vars

\* an update_frame call with autorange on and no user event before it has
\* ended with the scale index below the initial 9: the loop has widened
\* the radius
C16_Witness ==
    /\ pc = "idle"
    /\ op.name = "update_frame"
    /\ _autorange # 0
    /\ ui = 0
    /\ _scale < 9
    /\ \A i \in DOMAIN _points : in_bounds(Val(_bounds), _points[i])

\* C17: an accepted update_frame whose reference texts do not both parse as
\* numbers ends normally with the fixed reference cleared, the centre mode
\* "Average" and the box around the new average; when they parse, the fixed
\* reference is the parsed point, the mode is kept, and the box is around
\* the fixed point in mode "Fixed" and around the new average otherwise.
C17_ReferenceParseFallback ==
    [][(UpdateStep /\ _points' # _points) =>
          LET parses == TxtIsFloat(_reflat) /\ TxtIsFloat(_reflon)
              box(c) == _set_bounds(Drawing, c, _scale, winfo).bounds
          IN  IF parses
              THEN /\ _fixed' = Some(Point(TxtFloat(_reflat), TxtFloat(_reflon)))
                   /\ _centermode' = _centermode
                   /\ _bounds' = IF _centermode = CTRFIX
                                 THEN box(Val(_fixed'))
                                 ELSE box(Val(_average'))
              ELSE /\ _fixed' = None
                   /\ _centermode' = CTRAVG
                   /\ _bounds' = box(Val(_average'))]_vars

\* the plot set up in mode "Fixed" without autorange, the reference longitude
\* then overtyped with "x": the next accepted update has put the mode back
\* to "Average", cleared the fixed reference and boxed the average
C17_Witness ==
    /\ pc = "idle"
    /\ op.name = "update_frame"
    /\ _autorange = 0
    /\ ui = 1
    /\ _reflon = Txt("x")
    /\ Len(_points) = 1
    /\ _centermode = CTRAVG
    /\ _fixed = None
    /\ _bounds = _set_bounds(Drawing, _points[1], _scale, winfo).bounds

----------------------------------------------------------------------------
(* Further properties of the satellite log and the visible list *)

\* the entries of the visible list that report the satellite of this key
Shown(data, key) ==
    {i \in DOMAIN data : SatKey(data[i].gnssId, data[i].svid) = key}

\* C18: in every step, a sentence processed or time passing, the satellite
\* log keeps every key it has; and when a satellites-in-view sentence is
\* processed, a satellite last reported SAT_EXPIRY or more ago is not in
\* the visible list and is in the log.
C18_LogOnlyGrows ==
    [][/\ \A i \in DOMAIN gsv_log : \E j \in DOMAIN gsv_log' :
              gsv_log'[j].key = gsv_log[i].key
       /\ (sent' = sent + 1 /\ last'.msg.msgID = "GSV") =>
              \A i \in DOMAIN gsv_log :
                  clock' - gsv_log'[i].val.lastupdate >= SAT_EXPIRY =>
                      /\ Shown(gsv_data', gsv_log[i].key) = {}
                      /\ gsv_log'[i].key = gsv_log[i].key]_vars

\* the second sentence has been processed SAT_EXPIRY after the first: the
\* satellite of the first, with signal, is in the log but not in the visible
\* list, which shows the satellite of the second
C18_Witness ==
    /\ sent = 2
    /\ Len(gsv_log) = 2
    /\ gsv_log[1].val.snr = S("30")
    /\ clock - gsv_log[1].val.lastupdate >= SAT_EXPIRY
    /\ gsv_log[2].val.lastupdate = clock
    /\ Len(gsv_data) = 1
    /\ SatKey(gsv_data[1].gnssId, gsv_data[1].svid) = gsv_log[2].key

----------------------------------------------------------------------------
(* Further properties of the position sentences *)

\* C19: processing an RMC sentence copies its time, lat and lon into the
\* Fix State as they are; the speed becomes the knots-to-m/s conversion of
\* a present speed over ground (10 knots give 5.144 m/s) and stays when it
\* is empty; the track becomes a present course over ground, unless the
\* speed conversion failed before, and stays when the course is empty.
C19_RMCCopiesAndConverts ==
    [][(last'.raw = RAW /\ last'.msg.msgID = "RMC") =>
          LET data == last'.msg
              converts == data.spd = EMPTY \/ IsFloat(data.spd)
          IN  /\ nmea'["utc"] = data.time
              /\ nmea'["lat"] = data.lat
              /\ nmea'["lon"] = data.lon
              /\ data.spd = EMPTY => nmea'["speed"] = nmea["speed"]
              /\ (data.spd # EMPTY /\ converts) =>
                     nmea'["speed"] = knots2ms(data.spd)
              /\ data.spd = N(10000) => nmea'["speed"] = N(5144)
              /\ data.cog = EMPTY => nmea'["track"] = nmea["track"]
              /\ (data.cog # EMPTY /\ converts) => nmea'["track"] = data.cog]_vars

\* an RMC sentence without speed has been processed after one with 10
\* knots and a DOP sentence: the 5.144 m/s stand, time, position and course
\* are those of the sentence, and the HDOP is untouched
C19_Witness ==
    /\ last.raw = RAW
    /\ last.msg.msgID = "RMC"
    /\ last.msg.spd = EMPTY
    /\ nmea["speed"] = N(5144)
    /\ nmea["track"] = N(90)
    /\ nmea["utc"] = S("120000")
    /\ nmea["lat"] = N(515)
    /\ nmea["lon"] = N(-1)
    /\ Len(calls) = 3
    /\ calls[1].args.track = N(90)
    /\ nmea["hdop"] = N(11)

\* the log entry is due in the visible list
Due(val, showzero, now) ==
    /\ now - val.lastupdate < SAT_EXPIRY
    /\ showzero \/ val.snr \notin {S(""), S("0"), N(0)}

\* C20: right after a satellites-in-view sentence is processed the visible
\* list is the projection of the log: in the order of the log, one entry
\* (gnssId, svid, elev, azim, snr) for each log entry reported less than
\* SAT_EXPIRY ago whose signal is not "", "0" or 0 unless "show zero" is
\* on, and no other entry.
C20_VisibleListIsProjection ==
    [][(sent' = sent + 1 /\ last'.msg.msgID = "GSV") =>
          LET due == SelectSeq(gsv_log', LAMBDA e : Due(e.val, show_zero', clock'))
          IN  /\ Len(gsv_data') = Len(due)
              /\ \A i \in DOMAIN due :
                     gsv_data'[i] = [gnssId |-> due[i].val.gnssId,
                                     svid |-> due[i].val.svid,
                                     elev |-> due[i].val.elev,
                                     azim |-> due[i].val.azim,
                                     snr |-> due[i].val.snr]]_vars

\* with "show zero" on, the second sentence has been processed SAT_EXPIRY
\* after the first: the visible list is the fresh satellite without signal
\* alone, the expired one is in the log only
C20_Witness ==
    /\ show_zero
    /\ sent = 2
    /\ Len(gsv_log) = 2
    /\ clock - gsv_log[1].val.lastupdate >= SAT_EXPIRY
    /\ gsv_log[2].val.lastupdate = clock
    /\ gsv_log[2].val.snr = S("0")
    /\ gsv_data = << [gnssId |-> 6, svid |-> N(1), elev |-> N(45),
                      azim |-> N(120), snr |-> S("0")] >>

----------------------------------------------------------------------------
(* Properties of the notifications of the reducer *)

\* the calls of this log made on this consumer method
CallsOf(log, fn) == {i \in DOMAIN log : log[i].fn = fn}

\* C21: every processed satellites-in-view sentence calls the sky view, the
\* banner and the signal graph once each: the sky view and the graph with
\* the visible list as just rebuilt, the banner and the graph with the
\* length of that list as the satellites-in-view count.
C21_GSVNotifiesThreeConsumers ==
    [][(sent' = sent + 1 /\ last'.raw = RAW /\ last'.msg.msgID = "GSV") =>
          /\ \A fn \in {"update_sats", "update_banner", "update_graph"} :
                 Cardinality(CallsOf(calls', fn)) = 1
          /\ \A i \in CallsOf(calls', "update_sats") :
                 calls'[i].args.data = gsv_data'
          /\ \A i \in CallsOf(calls', "update_banner") :
                 calls'[i].args.siv = N(Len(gsv_data'))
          /\ \A i \in CallsOf(calls', "update_graph") :
                 /\ calls'[i].args.data = gsv_data'
                 /\ calls'[i].args.siv = N(Len(gsv_data'))]_vars

\* the second sentence has been processed with one of two logged satellites
\* visible: the three consumers were called with that list and the count 1
C21_Witness ==
    /\ sent = 2
    /\ Len(gsv_log) = 2
    /\ Len(gsv_data) = 1
    /\ Len(calls) = 4
    /\ calls[1] = [fn |-> "update_sats", args |-> [data |-> gsv_data]]
    /\ calls[2] = [fn |-> "update_banner", args |-> [siv |-> N(1)]]
    /\ calls[3] = [fn |-> "update_graph",
                   args |-> [data |-> gsv_data, siv |-> N(1)]]

\* C22: a process_data call hands the track recorder a trackpoint exactly
\* when it processes a GGA sentence while "record track" is on and the lat
\* and lon it stored are both non-empty; the trackpoint is then the stored
\* lat, lon and satellite count, the sentence's time as a UTC stamp, and the
\* stored altitude or 0 when that is empty.  No other call emits one.
C22_TrackpointOnlyFromGGA ==
    [][record_track' = record_track =>
          LET emitted == CallsOf(calls', "add_trackpoint")
          IN  IF /\ last'.raw = RAW
                 /\ last'.msg.msgID = "GGA"
                 /\ record_track
                 /\ nmea'["lat"] # EMPTY
                 /\ nmea'["lon"] # EMPTY
              THEN /\ Cardinality(emitted) = 1
                   /\ \A i \in emitted :
                          calls'[i].args =
                              [lat |-> nmea'["lat"], lon |-> nmea'["lon"],
                               ele |-> IF nmea'["alt"] = EMPTY THEN N(0)
                                       ELSE nmea'["alt"],
                               time |-> ts2utc(last'.msg.time),
                               sat |-> nmea'["sip"]]
              ELSE emitted = {}]_vars

\* with "record track" on, a GGA sentence with position and no altitude has
\* been processed: one trackpoint, elevation 0
C22_Witness ==
    /\ record_track
    /\ last.raw = RAW
    /\ last.msg.msgID = "GGA"
    /\ nmea["alt"] = EMPTY
    /\ Len(calls) = 4
    /\ calls[3] = [fn |-> "add_trackpoint",
                   args |-> [lat |-> N(515), lon |-> N(-1), ele |-> N(0),
                             time |-> S("<today>T120000Z"), sat |-> N(8)]]

----------------------------------------------------------------------------
(* Properties of the keys of the satellite log *)

----------------------------------------------------------------------------
(* Properties of the drawing of the scatterplot *)

\* how often the handler ran this drawing method
Ran(log, name) == Cardinality({i \in DOMAIN log : log[i] = name})

\* C24: _set_bounds redraws the static frame exactly when the box it derives
\* differs from the remembered one, and leaves the remembered box equal to
\* the box.  In an accepted update_frame before the autorange loop it is
\* the only caller of _init_frame; in an iteration of the loop the write of
\* the scale has run _init_frame once before it.
C24_FrameRedrawnIffBoxChanged ==
    [][/\ _bounds' # None => _lastbounds' = _bounds'
       /\ (UpdateStep /\ _points' # _points) =>
              Ran(op'.log, "_init_frame") =
                  IF _bounds' # _lastbounds THEN 1 ELSE 0
       /\ (pc = "autorange" /\ _scale' # _scale) =>
              Ran(op'.log, "_init_frame") - Ran(op.log, "_init_frame") =
                  IF _bounds' # _lastbounds THEN 2 ELSE 1]_vars

\* in mode "Fixed" a second point has been accepted: the box around the
\* fixed reference is the one remembered, and the static frame was not
\* redrawn, only the points
C24_Witness ==
    /\ pc = "idle"
    /\ op = [name |-> "update_frame", log |-> << "_redraw" >>]
    /\ _centermode = CTRFIX
    /\ Len(_points) = 2
    /\ _bounds # None
    /\ _lastbounds = _bounds

\* the retained points outside the box
OutOfBox == {i \in DOMAIN _points : ~in_bounds(Val(_bounds), _points[i])}

Places(v) ==
    IF RLe(RInt(100), v) THEN 0
    ELSE IF RLe(RInt(10), v) THEN 1
    ELSE IF RLe(RInt(1), v) THEN 2
    ELSE 3

\* the static frame on the canvas has its rings and labels
Ringed == canvas.frame # None /\ Val(canvas.frame).rings

\* the unit and the value the labels are derived from follow the radius
UnitFollowsRadius ==
    LET fr == Val(canvas.frame)
    IN  IF RLe(RInt(1000), _range)
        THEN fr.unt = "km" /\ RMul(fr.rng, RInt(1000)) = _range
        ELSE IF RLe(RInt(1), _range)
        THEN fr.unt = "m" /\ fr.rng = _range
        ELSE fr.unt = "cm" /\ fr.rng = RMul(_range, RInt(100))

\* C27, as stated: the labels are in km for a radius >= 1000 m, in m for
\* one >= 1 m and in cm otherwise, and the label of each of the four rings
\* has 0, 1, 2 or 3 decimal places according to that ring's own distance
\* value, a quarter, a half, three quarters or all of the range value.
C27_DecimalsPerRing ==
    Ringed =>
        /\ UnitFollowsRadius
        /\ \A i \in 1..4 :
               Val(canvas.frame).dp =
                   Places(RDiv(RMul(Val(canvas.frame).rng, RInt(i)), RInt(4)))

\* C27, amended: the units are as stated, and the four ring labels share
\* one number of decimal places, 0, 1, 2 or 3 according to the range value
\* itself, which is the value of the outermost ring.
C27_DecimalsPerRange ==
    Ringed =>
        /\ UnitFollowsRadius
        /\ Val(canvas.frame).dp = Places(Val(canvas.frame).rng)

\* the frame is drawn for a radius of 100 m: no decimal places, also for
\* the inner ring at 25 m
C27_Witness ==
    /\ Ringed
    /\ _range = RInt(100)
    /\ Val(canvas.frame).unt = "m"
    /\ Val(canvas.frame).dp = 0
    /\ Places(RDiv(Val(canvas.frame).rng, RInt(4))) = 1

----------------------------------------------------------------------------
(* Properties of the scale index *)

\* C28: from a scale index of the list of radii, every mouse wheel event
\* and every autorange step leaves an index of the list: a wheel event
\* moves it by at most one and not past either end, an autorange step takes
\* it down by at most one and not below 0.
C28_ScaleIndexInRange ==
    [][(_scale \in 0..(Len(_scale_factors) - 1)) =>
          /\ _scale' \in 0..(Len(_scale_factors) - 1)
          /\ op'.name = "_on_zoom" => _scale' \in {_scale - 1, _scale, _scale + 1}
          /\ pc = "autorange" => (_scale' = _scale \/ _scale' = _scale - 1)]_vars

\* a wheel event at the last index has changed nothing, after the autorange
\* of an update had stopped at index 0 and wheel events had gone up the
\* whole list
C28_Witness ==
    /\ op = [name |-> "_on_zoom", log |-> << >>]
    /\ _scale = Len(_scale_factors) - 1
    /\ Len(_points) = 2
    /\ _range = _scale_factors[1]

\* the slots of a sentence that carry a satellite id
Reported(data) == {s \in DOMAIN data.slots : data.slots[s].svid # EMPTY}

\* C29: when a satellites-in-view sentence is processed, the keys of the log
\* are those it had and those of the sentence's satellites, each key once;
\* the record of a satellite of the sentence is the one of the sentence
\* (the last slot that names it), dated now; and no two entries of the
\* visible list have the same constellation and satellite id.
C29_OneEntryPerSatellite ==
    [][(sent' = sent + 1 /\ last'.raw = RAW /\ last'.msg.msgID = "GSV") =>
          LET data == last'.msg
              gnss == gnssOf(data.talker)
              key(s) == SatKey(gnss, data.slots[s].svid)
          IN  /\ {gsv_log'[j].key : j \in DOMAIN gsv_log'} =
                     {gsv_log[j].key : j \in DOMAIN gsv_log}
                         \cup {key(s) : s \in Reported(data)}
              /\ \A j, k \in DOMAIN gsv_log' :
                     gsv_log'[j].key = gsv_log'[k].key => j = k
              /\ \A j \in DOMAIN gsv_log' : \A s \in Reported(data) :
                     (/\ gsv_log'[j].key = key(s)
                      /\ \A t \in Reported(data) : key(t) = key(s) => t <= s) =>
                         /\ gsv_log'[j].val.lastupdate = clock'
                         /\ gsv_log'[j].val.snr = S(PyStr(data.slots[s].cno))
                         /\ gsv_log'[j].val.elev = data.slots[s].elv
                         /\ gsv_log'[j].val.azim = data.slots[s].az
              /\ \A j, k \in DOMAIN gsv_data' :
                     (/\ gsv_data'[j].gnssId = gsv_data'[k].gnssId
                      /\ gsv_data'[j].svid = gsv_data'[k].svid) => j = k]_vars

\* satellites 2 and 3 were reported, then later 1 and 2 with signal: the
\* log holds 2, 3 and 1 once each, 2 in its old place with the new time,
\* and the visible list holds 2 and 1
C29_Witness ==
    /\ sent = 2
    /\ Len(gsv_log) = 3
    /\ gsv_log[1].key = "0-2"
    /\ gsv_log[2].key = "0-3"
    /\ gsv_log[3].key = "0-1"
    /\ gsv_log[1].val.lastupdate = clock
    /\ gsv_log[2].val.lastupdate = clock - SAT_EXPIRY
    /\ gsv_log[1].val.snr = S("30")
    /\ Len(gsv_data) = 2
    /\ gsv_data[1].svid = N(2)
    /\ gsv_data[2].svid = N(1)

----------------------------------------------------------------------------
(* Properties of the order of the notifications *)

\* the methods by which a handler notifies its consumers
Notifications ==
    {"update_banner", "update_map", "update_sats", "update_graph",
     "add_trackpoint", "set_status"}

\* C30: a process_data call with raw data writes the status record once,
\* as the last of its calls: every call before it is a notification by the
\* handler, made while the record still held the values it had before the
\* call, and the write gives the record the values it was passed.
C30_StatusWrittenOnceLast ==
    [][(record_track' = record_track /\ last'.raw = RAW) =>
          /\ Cardinality(CallsOf(calls', "set_GNSS_status")) = 1
          /\ calls'[Len(calls')].fn = "set_GNSS_status"
          /\ \A i \in 1..(Len(calls') - 1) : calls'[i].fn \in Notifications
          /\ \A key \in DOMAIN GNSS_status :
                 GNSS_status'[key] =
                     IF key \in DOMAIN calls'[Len(calls')].args
                     THEN calls'[Len(calls')].args[key]
                     ELSE GNSS_status[key]]_vars

\* an RMC sentence has been processed: banner and map were notified of the
\* new position, then the status record was written with it
C30_Witness ==
    /\ last.raw = RAW
    /\ last.msg.msgID = "RMC"
    /\ Len(calls) = 3
    /\ calls[1].fn = "update_banner"
    /\ calls[1].args.lat = N(515)
    /\ calls[2].fn = "update_map"
    /\ calls[3].fn = "set_GNSS_status"
    /\ calls[3].args.lat = N(515)
    /\ GNSS_status["lat"] = N(515)
    /\ GNSS_status["speed"] = N(0)

----------------------------------------------------------------------------
(* Properties of a sentence with absent slots *)

\* C31: when a satellites-in-view sentence with fewer than four slots is
\* processed, no error is reported: each slot it has that carries a
\* satellite id is in the log with the current time, the log gains no
\* other key, the visible list is rebuilt from the log, and the sky view,
\* the banner and the graph are called with it, followed by the write of
\* the status record.
C31_AbsentSlotEndsReading ==
    [][(/\ sent' = sent + 1
        /\ last'.raw = RAW
        /\ last'.msg.msgID = "GSV"
        /\ Len(last'.msg.slots) < 4) =>
          LET data == last'.msg
              key(s) == SatKey(gnssOf(data.talker), data.slots[s].svid)
              due == SelectSeq(gsv_log', LAMBDA e : Due(e.val, show_zero', clock'))
          IN  /\ \A s \in Reported(data) : \E j \in DOMAIN gsv_log' :
                     /\ gsv_log'[j].key = key(s)
                     /\ gsv_log'[j].val.lastupdate = clock'
              /\ {gsv_log'[j].key : j \in DOMAIN gsv_log'} =
                     {gsv_log[j].key : j \in DOMAIN gsv_log}
                         \cup {key(s) : s \in Reported(data)}
              /\ Len(gsv_data') = Len(due)
              /\ \A i \in DOMAIN due : gsv_data'[i].svid = due[i].val.svid
              /\ Len(calls') = 4
              /\ calls'[1] = [fn |-> "update_sats", args |-> [data |-> gsv_data']]
              /\ calls'[2].fn = "update_banner"
              /\ calls'[3].fn = "update_graph"
              /\ calls'[3].args.data = gsv_data'
              /\ calls'[4].fn = "set_GNSS_status"]_vars

\* a sentence with two slots, satellites 1 and 2 with signal, has been
\* processed into an empty log: both are logged and visible, and the three
\* consumers were called
C31_Witness ==
    /\ sent = 1
    /\ last.raw = RAW
    /\ last.msg.msgID = "GSV"
    /\ Len(last.msg.slots) = 2
    /\ Len(gsv_log) = 2
    /\ gsv_log[1].key = "0-1"
    /\ gsv_log[2].key = "0-2"
    /\ gsv_log[2].val.lastupdate = clock
    /\ Len(gsv_data) = 2
    /\ Len(calls) = 4
    /\ calls[1].fn = "update_sats"
    /\ calls[2].args.siv = N(2)
    /\ calls[3].fn = "update_graph"

====
